---- MODULE Spec2Model ----
(***************************************************************************)
(* Model of the finsights-ai backend: the nightly Update Orchestrator      *)
(* (RunNightlyUpdate / ProcessTicker over the valuation calculator and the *)
(* two-table store) and the screening query builder (buildQuery,           *)
(* buildSQLCondition, sanitizeSort).                                       *)
(*                                                                         *)
(* Numbers: float64 values are modelled in fixed point.  Money is in       *)
(* cents, ratios and rates are in hundredths (0.05 is 5, 8.5 is 850).      *)
(* A division by zero of a positive float64 is PosInf, as IEEE 754 gives.  *)
(* A nullable SQL column holds <<>> for NULL and <<v>> for the value v.    *)
(* Dates are integers ordered as the YYYY-MM-DD strings are.               *)
(***************************************************************************)
EXTENDS Integers, Sequences, FiniteSets, TLC

VARIABLES
  provider,      \* the provider's data per ticker (what the EODHD API answers)
  prices,        \* table prices: rows keyed by (ticker, date)
  fundamentals,  \* table fundamentals: rows keyed by ticker
  pc,            \* position of RunNightlyUpdate
  idx,           \* index of the next ticker in the range loop
  attempted,     \* tickers ProcessTicker was called for in this run
  lastCall,      \* the most recent ProcessTicker call: its locals and result
  runs,          \* number of finished invocations of RunNightlyUpdate
  afterFirst,    \* the store as the first refreshing run left it
  filter,        \* the ScreenerFilter under construction / given to ScreenStocks
  screen,        \* the last ScreenStocks call: query text, arguments, outcome
  request,       \* the GET /api/screener request being handled
  response,      \* the response the handler wrote
  cache,         \* the badger store of Cache: entry per key
  clock,         \* time.Now(), in seconds
  sets,          \* per key, the most recent Cache.Set: value, time, ttl
  got,           \* the most recent Cache.Get: key, found, value, error, time,
                 \* and the most recent Set of the key at that time
  clients,       \* per caller of Client.get: position, request key, v, error
  fetched,       \* per key, the values upstream calls answered with 200
  steps,         \* requests issued and waits taken so far
  session,       \* a caller paging through /api/screener: pages got so far
  sma,           \* a call of CalculateSMA: the caller's slice, days, result
  today          \* the weekday time.Now() shows (AnyDay: not fixed)

orchVars == <<provider, prices, fundamentals, pc, idx, attempted, lastCall,
              runs, afterFirst>>
screenVars == <<filter, screen>>
httpVars == <<request, response>>
cacheVars == <<cache, clock, sets, got>>
clientVars == <<clients, fetched, steps>>
callVars == <<session, sma, today>>
vars == <<provider, prices, fundamentals, pc, idx, attempted, lastCall,
          runs, afterFirst, filter, screen, request, response,
          cache, clock, sets, got, clients, fetched, steps, session, sma,
          today>>

---------------------------------------------------------------------------
(* Bounds *)

NumTickers == 2
MaxRuns == 2

AllTickers == <<"AAPL", "MSFT", "GOOGL", "JNJ">>
Universe == SubSeq(AllTickers, 1, NumTickers)

---------------------------------------------------------------------------
(* Program constants *)

MinHistory == 200
SMA50Days == 50
SMA200Days == 200
BondYield == 440
FallbackGrowth == 5
GrahamBase == 850
GrahamReferenceYield == 440
CAGRYears == 5
DivYearLast == 2023
DivYearPast == 2018
Sunday == 0
Saturday == 6

PosInf == 2 ^ 30
Null == <<>>
Some(v) == <<v>>

Weekdays == 0 .. 6
\* No calendar: a call of RunNightlyUpdate may fall on any day.
AnyDay == 0 - 1

---------------------------------------------------------------------------
(* Provider data *)

\* An end-of-day series of n points in the given order: one point per date.
EODPoint(d) == [Date |-> d, AdjustedClose |-> 10000 + 100 * (d % 7)]
SeriesAsc(n) == [i \in 1 .. n |-> EODPoint(i)]
SeriesDesc(n) == [i \in 1 .. n |-> EODPoint(n + 1 - i)]
\* The same points in an order that is neither: dates 8, 15, 22, ... (the
\* step has no divisor in common with the lengths used).
SeriesMixed(n) == [i \in 1 .. n |-> EODPoint(((i * 7) % n) + 1)]

EODResponses == {"error", "short_asc", "exact_asc", "long_desc"}

\* The decoded body of an EOD response: 199 or 200 points oldest first (the
\* provider's usual order), 200 points in mixed order, or 201 points newest
\* first.
EODBody(tag) ==
  IF tag = "short_asc" THEN SeriesAsc(MinHistory - 1)
  ELSE IF tag = "exact_asc" THEN SeriesAsc(MinHistory)
  ELSE IF tag = "exact_mixed" THEN SeriesMixed(MinHistory)
  ELSE SeriesDesc(MinHistory + 1)

\* GetEODData: the decoded response and the error of Client.get.
GetEODData(tag) ==
  IF tag = "error" THEN [err |-> TRUE, prices |-> <<>>]
  ELSE [err |-> FALSE, prices |-> EODBody(tag)]

---------------------------------------------------------------------------
(* Valuation calculator *)

RECURSIVE QuickSort(_), SumClose(_, _, _)

Median3(a, b, c) ==
  IF (a <= b /\ b <= c) \/ (c <= b /\ b <= a) THEN b
  ELSE IF (b <= a /\ a <= c) \/ (c <= a /\ a <= b) THEN a
  ELSE c

QuickSort(s) ==
  IF Len(s) <= 1 THEN s
  ELSE LET m == (Len(s) + 1) \div 2
           pd == Median3(s[1].Date, s[m].Date, s[Len(s)].Date)
           k == IF s[m].Date = pd THEN m ELSE IF s[1].Date = pd THEN 1 ELSE Len(s)
           p == s[k]
           rest == SubSeq(s, 1, k - 1) \o SubSeq(s, k + 1, Len(s))
           newer(e) == e.Date > pd
           older(e) == ~(e.Date > pd)
       IN QuickSort(SelectSeq(rest, newer)) \o <<p>>
            \o QuickSort(SelectSeq(rest, older))

IsNewestFirst(s) == \A i \in 1 .. Len(s) - 1 : s[i].Date > s[i + 1].Date
IsOldestFirst(s) == \A i \in 1 .. Len(s) - 1 : s[i].Date < s[i + 1].Date
Reverse(s) == LET n == Len(s) IN [i \in 1 .. n |-> s[n + 1 - i]]

\* No sort: the points as they came.
SortNewestFirst_AsGiven(s) == s

\* sort.Slice(data, func(i, j) { return data[i].Date > data[j].Date }):
\* the points ordered by date, newest first.  Like Go's pattern-defeating
\* quicksort, a slice that is already in order is left alone and one in
\* reverse order is reversed.
SortNewestFirst(s) ==
  IF IsNewestFirst(s) THEN s
  ELSE IF IsOldestFirst(s) THEN Reverse(s)
  ELSE QuickSort(s)

SumClose(s, lo, hi) ==
  IF lo > hi THEN 0
  ELSE IF lo = hi THEN s[lo].Close
  ELSE LET m == (lo + hi) \div 2
       IN SumClose(s, lo, m) + SumClose(s, m + 1, hi)

\* An average over the oldest points instead of the newest.
CalculateSMA_Oldest(data, days) ==
  IF Len(data) < days
  THEN [value |-> 0, err |-> TRUE, data |-> data]
  ELSE LET sorted == SortNewestFirst(data)
       IN [value |-> SumClose(sorted, Len(data) - days + 1, Len(data)) \div days,
           err |-> FALSE, data |-> sorted]

\* CalculateSMA sorts the caller's slice in place: data is the slice after
\* the call.
CalculateSMA(data, days) ==
  IF Len(data) < days
  THEN [value |-> 0, err |-> TRUE, data |-> data]
  ELSE LET sorted == SortNewestFirst(data)
       IN [value |-> SumClose(sorted, 1, days) \div days, err |-> FALSE,
           data |-> sorted]

\* float64 division of a positive numerator, in hundredths.
FloatDiv(a, b) == IF b = 0 THEN PosInf ELSE (a * 100) \div b

CalculateROE(netIncome, equity) ==
  IF equity = 0 THEN [value |-> 0, err |-> TRUE]
  ELSE [value |-> (netIncome * 100) \div equity, err |-> FALSE]

CalculateIntrinsicValue(eps, growthRate, bondYield) ==
  LET by == IF bondYield <= 0 THEN GrahamReferenceYield ELSE bondYield
  IN IF eps <= 0 \/ growthRate < 0
     THEN [value |-> 0, err |-> TRUE]
     ELSE [value |-> ((eps * (GrahamBase + 2 * growthRate) * GrahamReferenceYield)
                        \div by) \div 100,
           err |-> FALSE]

CalculateMarginOfSafety(intrinsic, price) ==
  IF intrinsic = 0 THEN 0 ELSE ((intrinsic - price) * 100) \div intrinsic

CalculateDividendYield(divPerShare, price) ==
  IF price = 0 THEN 0 ELSE (divPerShare * 100) \div price

\* (end/start)^(1/years) - 1 in hundredths, to a resolution of 0.05: the
\* greatest r with (1 + r)^years <= end/start.
\* The provider data below keeps end/start under 3, so the search range
\* -1.00 .. 0.25 holds the result and the products stay in 32 bits.
RECURSIVE Pow(_, _), GreatestRate(_, _, _, _)
Pow(b, e) == IF e = 0 THEN 1 ELSE b * Pow(b, e - 1)
GreatestRate(r, start, end, years) ==
  IF r < 5 /\ start * Pow(20 + r + 1, years) <= end * Pow(20, years)
  THEN GreatestRate(r + 1, start, end, years)
  ELSE r
calculateCAGR(start, end, years) ==
  IF start <= 0 \/ end <= 0 \/ years <= 0 THEN 0
  ELSE 5 * GreatestRate(-20, start, end, years)

CalculateDividendCAGR(start, end, years) ==
  IF start <= 0 \/ end <= 0 \/ years <= 0 THEN 0
  ELSE calculateCAGR(start, end, years)

RECURSIVE sumOfDividendsForYear(_, _)
sumOfDividendsForYear(divs, year) ==
  IF divs = <<>> THEN 0
  ELSE (IF Head(divs).Year = year THEN Head(divs).Value ELSE 0)
         + sumOfDividendsForYear(Tail(divs), year)

---------------------------------------------------------------------------
(* Provider client: fundamentals and dividends *)

FundResponses == {"error", "no_period", "zero_equity", "zero_eps", "ok"}

EmptyMap == [k \in {} |-> 0]
Period2023 == 20231231
Period2022 == Period2023 - 10000
Period2018 == 20181231

\* The decoded fundamentals document: Earnings::History::<date>::epsActual,
\* Financials::Balance_Sheet::yearly::<period>::totalStockholderEquity and
\* Financials::Income_Statement::yearly::<period>::netIncome.
FundBody ==
  [ok |->
     [epsActual |-> [k \in {Period2018, Period2023} |->
                       IF k = Period2023 THEN 200 ELSE 100],
      equity |-> [k \in {Period2022, Period2023} |->
                    IF k = Period2023 THEN 100000 ELSE 90000],
      netIncome |-> [k \in {Period2022, Period2023} |->
                       IF k = Period2023 THEN 25000 ELSE 20000]],
   no_period |->
     [epsActual |-> [k \in {Period2018, Period2023} |->
                       IF k = Period2023 THEN 200 ELSE 100],
      equity |-> EmptyMap,
      netIncome |-> EmptyMap],
   zero_equity |->
     [epsActual |-> [k \in {Period2023} |-> 200],
      equity |-> [k \in {Period2023} |-> 0],
      netIncome |-> [k \in {Period2023} |-> 25000]],
   zero_eps |->
     [epsActual |-> EmptyMap,
      equity |-> [k \in {Period2023} |-> 100000],
      netIncome |-> [k \in {Period2023} |-> 25000]]]

GetFundamentalsRaw(tag) ==
  IF tag = "error" THEN [err |-> TRUE, fund |-> FundBody["no_period"]]
  ELSE [err |-> FALSE, fund |-> FundBody[tag]]

\* Fundamentals.GetFloat: the number at the path, 0 when the path is absent.
GetFloat(map, key) == IF key \in DOMAIN map THEN map[key] ELSE 0

\* Fundamentals.GetLatestPeriod: the greatest period key, "" (here 0) when
\* there is none.
GetLatestPeriod(map) ==
  IF DOMAIN map = {} THEN 0
  ELSE CHOOSE k \in DOMAIN map : \A j \in DOMAIN map : j <= k

DivResponses == {"error", "ok"}

DivBody ==
  <<[Year |-> 2018, Value |-> 50], [Year |-> 2018, Value |-> 50],
    [Year |-> 2023, Value |-> 100], [Year |-> 2023, Value |-> 100],
    [Year |-> 2024, Value |-> 120]>>

GetDividends(tag) ==
  IF tag = "error" THEN [err |-> TRUE, divs |-> <<>>]
  ELSE [err |-> FALSE, divs |-> DivBody]

\* The provider's answers for one ticker.  An answer the orchestrator cannot
\* ask for (after a failed earlier fetch) is fixed, so that equal behaviours
\* are not counted twice.
ProviderScenarios ==
  {s \in [eod : EODResponses, fund : FundResponses, div : DivResponses] :
     /\ s.eod \in {"error", "short_asc"} => s.fund = "error" /\ s.div = "error"
     /\ s.fund \in {"error", "no_period"} => s.div = "error"
     /\ s.fund \in {"zero_equity", "zero_eps"} => s.div = "ok"}

---------------------------------------------------------------------------
(* Store *)

\* INSERT OR REPLACE INTO prices: the row with the same (ticker, date) goes.
SaveSMA(pr, ticker, date, close, sma50, sma200) ==
  {r \in pr : ~(r.ticker = ticker /\ r.date = date)}
    \cup {[ticker |-> ticker, date |-> date, close |-> close,
           sma50 |-> sma50, sma200 |-> sma200]}

\* An upsert that keeps the columns it does not name (ON CONFLICT DO UPDATE).
SaveROE_KeepColumns(fu, ticker, roe, pe, outlook, now) ==
  IF \E r \in fu : r.ticker = ticker
  THEN {IF r.ticker = ticker
        THEN [r EXCEPT !.roe = Some(roe), !.pe_ratio = Some(pe),
                       !.earnings_outlook = outlook, !.updated_at = now]
        ELSE r : r \in fu}
  ELSE fu \cup {[ticker |-> ticker, roe |-> Some(roe), pe_ratio |-> Some(pe),
                 earnings_outlook |-> outlook, updated_at |-> now,
                 dividend_yield |-> Null, dividend_growth_5y |-> Null,
                 intrinsic_value |-> Null, margin_of_safety |-> Null]}

\* INSERT OR REPLACE INTO fundamentals (ticker, roe, pe_ratio,
\* earnings_outlook, updated_at): the row of the ticker is deleted and a new
\* one inserted; the columns the statement does not name are NULL.
SaveROE(fu, ticker, roe, pe, outlook, now) ==
  {r \in fu : r.ticker # ticker}
    \cup {[ticker |-> ticker, roe |-> Some(roe), pe_ratio |-> Some(pe),
           earnings_outlook |-> outlook, updated_at |-> now,
           dividend_yield |-> Null, dividend_growth_5y |-> Null,
           intrinsic_value |-> Null, margin_of_safety |-> Null]}

\* UPDATE fundamentals SET ... WHERE ticker = ?: no row, no change.
SaveValuationMetrics(fu, ticker, divYield, divGrowth, intrinsic, margin) ==
  {IF r.ticker = ticker
   THEN [r EXCEPT !.dividend_yield = Some(divYield),
                  !.dividend_growth_5y = Some(divGrowth),
                  !.intrinsic_value = Some(intrinsic),
                  !.margin_of_safety = Some(margin)]
   ELSE r : r \in fu}

---------------------------------------------------------------------------
(* Update orchestrator *)

\* The guard without its length test.
InsufficientEOD_ErrOnly(resp) == resp.err

\* err != nil || len(prices) < 200
InsufficientEOD(resp) == resp.err \/ Len(resp.prices) < MinHistory

\* ProcessTicker, step 2: the conversion to []EOD, both moving averages (the
\* second call gets the slice the first one sorted) and latest := eod[0].
PriceStage(body) ==
  LET eod == [i \in 1 .. Len(body) |->
                [Date |-> body[i].Date, Close |-> body[i].AdjustedClose]]
      r50 == CalculateSMA(eod, SMA50Days)
      r200 == CalculateSMA(r50.data, SMA200Days)
  IN [sma50 |-> r50.value, sma200 |-> r200.value, latest |-> r200.data[1]]

NoCall ==
  [ticker |-> "", err |-> "", fatal |-> FALSE, saved |-> FALSE,
   roeErr |-> FALSE, intrinsicErr |-> FALSE,
   roe |-> 0, pe |-> 0, divYield |-> 0, divGrowth |-> 0,
   intrinsic |-> 0, margin |-> 0]

\* ProcessTicker(db, client, ticker): the tables after the call, the error
\* it returns, whether log.Fatal ended the process, and its locals.
ProcessTicker(pr, fu, p, ticker, now) ==
  LET resp == GetEODData(p.eod)
      fail(e, pr1, fatal) ==
        [prices |-> pr1, fundamentals |-> fu,
         call |-> [NoCall EXCEPT !.ticker = ticker, !.err = e, !.fatal = fatal]]
  IN
  IF InsufficientEOD(resp) THEN fail("not enough EOD data", pr, FALSE)
  ELSE
  LET stage == PriceStage(resp.prices)
      latest == stage.latest
      pr1 == SaveSMA(pr, ticker, latest.Date, latest.Close, stage.sma50, stage.sma200)
      fresp == GetFundamentalsRaw(p.fund)
  IN
  IF fresp.err THEN fail("error getting fundamentals", pr1, FALSE)
  ELSE
  LET fund == fresp.fund
      eps == GetFloat(fund.epsActual, Period2023)
      price == latest.Close
      pe == FloatDiv(price, eps)
      period == GetLatestPeriod(fund.equity)
  IN
  IF period = 0 THEN fail("", pr1, TRUE)
  ELSE
  LET equity == GetFloat(fund.equity, period)
      netIncome == GetFloat(fund.netIncome, period)
      roe == CalculateROE(netIncome, equity)
      epsPast == GetFloat(fund.epsActual, Period2018)
      cagr == calculateCAGR(epsPast, eps, CAGRYears)
      growthRate == IF cagr = 0 THEN FallbackGrowth ELSE cagr
      dresp == GetDividends(p.div)
  IN
  IF dresp.err THEN fail("error getting dividends", pr1, FALSE)
  ELSE
  LET divPerShareLast == sumOfDividendsForYear(dresp.divs, DivYearLast)
      divPerSharePast == sumOfDividendsForYear(dresp.divs, DivYearPast)
      divYield == CalculateDividendYield(divPerShareLast, price)
      divGrowth == CalculateDividendCAGR(divPerSharePast, divPerShareLast, CAGRYears)
      intrinsic == CalculateIntrinsicValue(eps, growthRate, BondYield)
      safetyMargin == CalculateMarginOfSafety(intrinsic.value, price)
      fu1 == SaveValuationMetrics(fu, ticker, divYield, divGrowth,
                                  intrinsic.value, safetyMargin)
      fu2 == SaveROE(fu1, ticker, roe.value, pe, "", now)
  IN [prices |-> pr1, fundamentals |-> fu2,
      call |-> [ticker |-> ticker, err |-> "", fatal |-> FALSE, saved |-> TRUE,
                roeErr |-> roe.err, intrinsicErr |-> intrinsic.err,
                roe |-> roe.value, pe |-> pe, divYield |-> divYield,
                divGrowth |-> divGrowth, intrinsic |-> intrinsic.value,
                margin |-> safetyMargin]]

ShouldUpdateNow(weekday) == weekday # Saturday /\ weekday # Sunday

\* The store without the last-update timestamps.
Timeless(fu) == {[r EXCEPT !.updated_at = 0] : r \in fu}
NoSnapshot == [taken |-> FALSE, prices |-> {}, fundamentals |-> {}]

\* RunNightlyUpdate is called: it reads the clock and skips a weekend.  The
\* day of the week is any day, or the day the calendar shows when there is
\* one.
RunNightlyUpdate_Start ==
  /\ pc = "idle"
  /\ runs < MaxRuns
  /\ \E d \in (IF today = AnyDay THEN Weekdays ELSE {today}) :
       pc' = IF d = Saturday \/ d = Sunday THEN "skipped" ELSE "refreshing"
  /\ idx' = 1
  /\ attempted' = <<>>
  /\ lastCall' = NoCall
  /\ UNCHANGED <<provider, prices, fundamentals, runs, afterFirst, filter, screen,
                 httpVars, cacheVars, clientVars, callVars>>

\* One iteration of the range loop: ProcessTicker for the next ticker; an
\* error is logged and the loop goes on, log.Fatal ends the process.
RunNightlyUpdate_Ticker ==
  /\ pc = "refreshing"
  /\ idx <= Len(Universe)
  /\ \E res \in {ProcessTicker(prices, fundamentals, provider[Universe[idx]],
                                 Universe[idx], runs + 1)} :
        /\ prices' = res.prices
        /\ fundamentals' = res.fundamentals
        /\ lastCall' = res.call
        /\ attempted' = Append(attempted, Universe[idx])
        /\ pc' = IF res.call.fatal THEN "exited" ELSE "refreshing"
        /\ idx' = IF res.call.fatal THEN idx ELSE idx + 1
  /\ UNCHANGED <<provider, runs, afterFirst, filter, screen,
                 httpVars, cacheVars, clientVars, callVars>>

\* The loop is over: "Nightly update complete."
RunNightlyUpdate_Complete ==
  /\ pc = "refreshing"
  /\ idx > Len(Universe)
  /\ pc' = "complete"
  /\ UNCHANGED <<provider, prices, fundamentals, idx, attempted, lastCall,
                 runs, afterFirst, filter, screen,
                 httpVars, cacheVars, clientVars, callVars>>

\* RunNightlyUpdate has returned, or the process has exited and is started
\* again for the next night (the next day of the calendar); the locals of
\* the call are gone.
RunNightlyUpdate_Return ==
  /\ pc \in {"skipped", "complete", "exited"}
  /\ pc' = "idle"
  /\ runs' = runs + 1
  /\ afterFirst' =
       IF pc # "skipped" /\ ~afterFirst.taken
       THEN [taken |-> TRUE, prices |-> prices,
             fundamentals |-> Timeless(fundamentals)]
       ELSE afterFirst
  /\ idx' = 1
  /\ attempted' = <<>>
  /\ lastCall' = NoCall
  /\ today' = IF today = AnyDay THEN AnyDay ELSE (today + 1) % 7
  /\ UNCHANGED <<provider, prices, fundamentals, filter, screen,
                 httpVars, cacheVars, clientVars, session, sma>>

NoRequest == [method |-> "", page |-> <<>>, limit |-> <<>>, filters |-> <<>>, sort |-> ""]
NoResponse ==
  [status |-> 0, error |-> "", message |-> "", data |-> <<>>, page |-> 0,
   limit |-> 0, total_count |-> 0, has_more |-> FALSE]

\* The clock counts half seconds; the cache starts one second after the
\* epoch, empty, with nothing set and nothing asked.  Keys are request URLs.
TicksPerSecond == 2
CacheKeys == {"eod/AAPL", "eod/MSFT"}
NoEntry == [present |-> FALSE, bytes |-> <<>>, expiresAt |-> 0]
NoSet == [present |-> FALSE, value |-> <<>>, at |-> 0, ttl |-> 0]
NoGet ==
  [key |-> "", found |-> FALSE, err |-> FALSE, value |-> <<>>, at |-> 0,
   last |-> NoSet]
CacheIdle ==
  /\ cache = [k \in CacheKeys |-> NoEntry]
  /\ clock = TicksPerSecond
  /\ sets = [k \in CacheKeys |-> NoSet]
  /\ got = NoGet

\* Callers of Client.get; none has called, nothing was fetched.
Callers == {"a", "b"}
NoClient ==
  [pc |-> "idle", key |-> "", v |-> <<>>, err |-> "", calls |-> 0, at |-> 0,
   seen |-> NoSet]
ClientIdle ==
  /\ clients = [c \in Callers |-> NoClient]
  /\ fetched = [k \in CacheKeys |-> {}]
  /\ steps = [requests |-> 0, waits |-> 0]

NoSession ==
  [open |-> FALSE, limit |-> <<>>, filters |-> <<>>, sort |-> "", page |-> 0,
   tickers |-> <<>>, more |-> <<>>, failed |-> FALSE]
NoSMA == [called |-> FALSE, before |-> <<>>, data |-> <<>>, days |-> 0,
          value |-> 0, err |-> FALSE]

EmptyFilter == [Conditions |-> <<>>, Sort |-> "", Limit |-> 0, Offset |-> 0]
NoScreen ==
  [called |-> FALSE, panicked |-> FALSE, submitted |-> FALSE, err |-> "",
   text |-> <<>>, where |-> <<>>, args |-> <<>>, results |-> <<>>]

Init ==
  /\ provider \in [{Universe[i] : i \in 1 .. Len(Universe)} -> ProviderScenarios]
  /\ prices = {}
  /\ fundamentals = {}
  /\ pc = "idle"
  /\ idx = 1
  /\ attempted = <<>>
  /\ lastCall = NoCall
  /\ runs = 0
  /\ afterFirst = NoSnapshot
  /\ filter = EmptyFilter
  /\ screen = NoScreen
  /\ request = NoRequest
  /\ response = NoResponse
  /\ CacheIdle
  /\ ClientIdle
  /\ session = NoSession
  /\ sma = NoSMA
  /\ today = AnyDay

Next ==
  \/ RunNightlyUpdate_Start
  \/ RunNightlyUpdate_Ticker
  \/ RunNightlyUpdate_Complete
  \/ RunNightlyUpdate_Return

Spec == Init /\ [][Next]_vars

\* The nightly update over a calendar: the first night is any day of the
\* week.
InitGate ==
  /\ provider \in [{Universe[i] : i \in 1 .. Len(Universe)} -> ProviderScenarios]
  /\ prices = {}
  /\ fundamentals = {}
  /\ pc = "idle"
  /\ idx = 1
  /\ attempted = <<>>
  /\ lastCall = NoCall
  /\ runs = 0
  /\ afterFirst = NoSnapshot
  /\ filter = EmptyFilter
  /\ screen = NoScreen
  /\ request = NoRequest
  /\ response = NoResponse
  /\ CacheIdle
  /\ ClientIdle
  /\ session = NoSession
  /\ sma = NoSMA
  /\ today \in Weekdays

SpecGate == InitGate /\ [][Next]_vars

---------------------------------------------------------------------------
(* Screening engine: filter translation and query building *)

MaxConds == 2

\* A condition value (Go: any) with its dynamic type.  Numbers are in
\* hundredths; a JSON list decodes to []any, TickerIn passes a []string.
Val(type, num, str, list) == [type |-> type, num |-> num, str |-> str, list |-> list]
FloatVal(n) == Val("float64", n, "", <<>>)
IntVal(n) == Val("int", n, "", <<>>)
StrVal(x) == Val("string", 0, x, <<>>)
Strings(l) == Val("[]string", 0, "", l)
Anys(l) == Val("[]any", 0, "", l)
Nil == Val("nil", 0, "", <<>>)

Cond(field, operator, value) ==
  [Field |-> field, Operator |-> operator, Value |-> value]

\* The conditions callers pass: FilterBuilder conditions, conditions decoded
\* from the JSON wire format, unknown and hostile field names, unsupported
\* operators.
CondPool ==
  {Cond("pe_ratio", "<", FloatVal(2000)),
   Cond("close", ">", FloatVal(10000)),
   Cond("earnings_outlook", "LIKE", StrVal("pos%")),
   Cond("roe", "!=", Nil),
   Cond("ticker", "IN", Strings(<<"AAPL", "MSFT">>)),
   Cond("ticker", "IN", Strings(<<>>)),
   Cond("ticker", "IN", Anys(<<"AAPL">>)),
   Cond("close", "IN", Strings(<<"1">>)),
   Cond("price_vs_sma50", "<", FloatVal(100)),
   Cond("price_vs_sma200", ">", FloatVal(100)),
   Cond("price_vs_sma50", "<", FloatVal(200)),
   Cond("price_vs_sma200", ">", IntVal(1)),
   Cond("intrinsic_vs_price", ">", FloatVal(100)),
   Cond("intrinsic_vs_price", "<", FloatVal(100)),
   Cond("market_cap", ">", FloatVal(100000)),
   Cond("ticker = f.ticker OR f.ticker", "=", StrVal("x")),
   Cond("pe_ratio", "BETWEEN", FloatVal(100))}

SortPool ==
  {"pe_ratio.asc", "pe_ratio.desc", "roe.asc", "roe.desc", "close.asc",
   "close.desc", "dividend_yield.asc", "dividend_yield.desc",
   "margin_of_safety.asc", "margin_of_safety.desc", "ticker.asc",
   "ticker.desc", "", "pe_ratio ASC", "roe DESC", "invalid_sort",
   "f.ticker; DROP TABLE prices"}

LimitPool == {0, 50}
OffsetPool == {0, 10}

fundamentalsFields ==
  {"ticker", "pe_ratio", "roe", "earnings_outlook", "dividend_yield",
   "dividend_growth_5y", "intrinsic_value", "margin_of_safety"}
pricesFields == {"close", "sma50", "sma200"}

isFieldInFundamentals(field) == field \in fundamentalsFields
isFieldInPrices(field) == field \in pricesFields

\* value == 1.0 on an any: a float64 holding 1.
IsFloatOne(value) == value.type = "float64" /\ value.num = 100

RECURSIVE Repeat(_, _)
Repeat(tok, n) == IF n = 0 THEN <<>> ELSE <<tok>> \o Repeat(tok, n - 1)

NoSQL == [sql |-> <<>>, value |-> Nil, panic |-> FALSE]
SQL(tokens, value) == [sql |-> tokens, value |-> value, panic |-> FALSE]

\* buildSQLCondition: the predicate text as the sequence of the pieces
\* Sprintf joins (the field and the operator are pieces of their own), the
\* value to bind, and whether strings.Repeat panicked on a negative count.
buildSQLCondition(condition) ==
  LET field == condition.Field
      operator == condition.Operator
      value == condition.Value
      one == IsFloatOne(value)
      alias == IF isFieldInFundamentals(field) THEN "f."
               ELSE IF isFieldInPrices(field) THEN "p."
               ELSE "f."
  IN
  IF field = "price_vs_sma50" /\ operator = "<" /\ one
    THEN SQL(<<"p.close < p.sma50">>, Nil)
  ELSE IF field = "price_vs_sma50" /\ operator = ">" /\ one
    THEN SQL(<<"p.close > p.sma50">>, Nil)
  ELSE IF field = "price_vs_sma200" /\ operator = "<" /\ one
    THEN SQL(<<"p.close < p.sma200">>, Nil)
  ELSE IF field = "price_vs_sma200" /\ operator = ">" /\ one
    THEN SQL(<<"p.close > p.sma200">>, Nil)
  ELSE IF field = "intrinsic_vs_price" /\ operator = ">" /\ one
    THEN SQL(<<"f.intrinsic_value > p.close">>, Nil)
  ELSE IF operator = "IN" /\ value.type = "[]string"
    THEN IF Len(value.list) - 1 < 0
         THEN [sql |-> <<>>, value |-> Nil, panic |-> TRUE]
         ELSE LET placeholders == Repeat("?,", Len(value.list) - 1) \o <<"?">>
              IN IF isFieldInFundamentals(field)
                 THEN SQL(<<"f.", field, " IN (">> \o placeholders \o <<")">>, value)
                 ELSE SQL(<<field, " IN (">> \o placeholders \o <<")">>, value)
  ELSE IF operator \in {"=", ">", "<", ">=", "<=", "!="}
    THEN SQL(<<alias, field, " ", operator, " ?">>, value)
  ELSE IF operator = "LIKE"
    THEN SQL(<<alias, field, " LIKE ?">>, value)
  ELSE NoSQL

validSorts ==
  [k \in {"pe_ratio.asc", "pe_ratio.desc", "roe.asc", "roe.desc", "close.asc",
          "close.desc", "dividend_yield.asc", "dividend_yield.desc",
          "margin_of_safety.asc", "margin_of_safety.desc", "ticker.asc",
          "ticker.desc"} |->
     CASE k = "pe_ratio.asc" -> "f.pe_ratio ASC"
       [] k = "pe_ratio.desc" -> "f.pe_ratio DESC"
       [] k = "roe.asc" -> "f.roe ASC"
       [] k = "roe.desc" -> "f.roe DESC"
       [] k = "close.asc" -> "p.close ASC"
       [] k = "close.desc" -> "p.close DESC"
       [] k = "dividend_yield.asc" -> "f.dividend_yield ASC"
       [] k = "dividend_yield.desc" -> "f.dividend_yield DESC"
       [] k = "margin_of_safety.asc" -> "f.margin_of_safety ASC"
       [] k = "margin_of_safety.desc" -> "f.margin_of_safety DESC"
       [] k = "ticker.asc" -> "f.ticker ASC"
       [] k = "ticker.desc" -> "f.ticker DESC"]

\* A sanitizer that lets an unknown sort string through.
sanitizeSort_PassThrough(sort) ==
  IF sort \in DOMAIN validSorts THEN validSorts[sort] ELSE sort

sanitizeSort(sort) ==
  IF sort \in DOMAIN validSorts THEN validSorts[sort] ELSE "f.pe_ratio ASC"

RECURSIVE Join(_, _), BuildWhere(_, _)
\* strings.Join(whereConditions, " AND ")
Join(preds, sep) ==
  IF preds = <<>> THEN <<>>
  ELSE IF Len(preds) = 1 THEN Head(preds)
  ELSE Head(preds) \o <<sep>> \o Join(Tail(preds), sep)

\* The arguments a condition's value adds: each element of a []string, the
\* value itself otherwise, nothing for nil.
ArgsOf(value) ==
  IF value.type = "nil" THEN <<>>
  ELSE IF value.type = "[]string"
    THEN [i \in 1 .. Len(value.list) |-> StrVal(value.list[i])]
  ELSE <<value>>

\* The loop of buildQuery over filter.Conditions.
BuildWhere(conds, acc) ==
  IF conds = <<>> \/ acc.panic THEN acc
  ELSE LET c == buildSQLCondition(Head(conds))
       IN BuildWhere(Tail(conds),
            IF c.panic THEN [acc EXCEPT !.panic = TRUE]
            ELSE IF c.sql # <<>>
              THEN [where |-> Append(acc.where, c.sql),
                    args |-> acc.args \o ArgsOf(c.value),
                    panic |-> FALSE]
            ELSE acc)

BaseQuery == "SELECT ... FROM fundamentals f LEFT JOIN (latest prices) p ON f.ticker = p.ticker"

\* buildQuery: the query text as a sequence of pieces, the predicates of the
\* WHERE clause and the bound arguments; order, limit and offset are the
\* ORDER BY, LIMIT and OFFSET clauses of the text ("" and 0: no clause).
buildQuery(f) ==
  LET w == BuildWhere(f.Conditions, [where |-> <<>>, args |-> <<>>, panic |-> FALSE])
      whereText == IF Len(w.where) > 0
                   THEN <<" WHERE ">> \o Join(w.where, " AND ") ELSE <<>>
      orderText == IF f.Sort # ""
                   THEN <<" ORDER BY ", sanitizeSort(f.Sort)>> ELSE <<>>
      limitText == IF f.Limit > 0 THEN <<" LIMIT ", ToString(f.Limit)>> ELSE <<>>
      offsetText == IF f.Offset > 0 THEN <<" OFFSET ", ToString(f.Offset)>> ELSE <<>>
  IN [text |-> <<BaseQuery>> \o whereText \o orderText \o limitText \o offsetText,
      where |-> w.where, args |-> w.args, panic |-> w.panic,
      order |-> IF f.Sort # "" THEN sanitizeSort(f.Sort) ELSE "",
      limit |-> IF f.Limit > 0 THEN f.Limit ELSE 0,
      offset |-> IF f.Offset > 0 THEN f.Offset ELSE 0]

---------------------------------------------------------------------------
(* Screening engine: the query run by SQLite over the store *)

\* Columns of the tables (schema) and of the subquery joined as p.
FundamentalsColumns ==
  {"ticker", "pe_ratio", "roe", "yoy_profit", "yoy_turnover",
   "earnings_outlook", "updated_at", "dividend_yield", "dividend_growth_5y",
   "intrinsic_value", "margin_of_safety"}
LatestPriceColumns == {"ticker", "close", "sma50", "sma200"}

\* The subquery without its WHERE date = (SELECT MAX(date) ...).
LatestPrices_AllDates(pr) == pr

\* SELECT ticker, close, sma50, sma200 FROM prices p1
\* WHERE date = (SELECT MAX(date) FROM prices p2 WHERE p2.ticker = p1.ticker)
LatestPrices(pr) ==
  {r \in pr : \A o \in pr : o.ticker = r.ticker => o.date <= r.date}

\* An inner join: a fundamentals row without a price row is not a candidate.
JoinedRows_InnerJoin(fu, pr) ==
  {[f |-> x[1], p |-> <<x[2]>>] :
     x \in {y \in fu \X LatestPrices(pr) : y[1].ticker = y[2].ticker}}

\* FROM fundamentals f LEFT JOIN (...) p ON f.ticker = p.ticker: a
\* fundamentals row without a latest price row is joined to NULLs.
JoinedRows(fu, pr) ==
  {[f |-> x[1], p |-> <<x[2]>>] :
     x \in {y \in fu \X LatestPrices(pr) : y[1].ticker = y[2].ticker}}
    \cup {[f |-> fr, p |-> <<>>] :
            fr \in {x \in fu : \A l \in pr : l.ticker # x.ticker}}

Nullable(c) == IF c = Null THEN Nil ELSE FloatVal(c[1])

\* alias.column names a column ("no such column" otherwise); a name without
\* alias must belong to exactly one of the two tables.
ColumnKnown(alias, column) ==
  CASE alias = "f." -> column \in FundamentalsColumns
    [] alias = "p." -> column \in LatestPriceColumns
    [] OTHER -> (column \in FundamentalsColumns) # (column \in LatestPriceColumns)

\* The value of alias.column in a joined row.
ColumnValue(j, alias, column) ==
  IF alias = "f." \/ (alias = "" /\ column \notin LatestPriceColumns) THEN
    CASE column = "ticker" -> StrVal(j.f.ticker)
      [] column = "earnings_outlook" -> StrVal(j.f.earnings_outlook)
      [] column = "updated_at" -> IntVal(j.f.updated_at)
      [] column = "pe_ratio" -> Nullable(j.f.pe_ratio)
      [] column = "roe" -> Nullable(j.f.roe)
      [] column = "dividend_yield" -> Nullable(j.f.dividend_yield)
      [] column = "dividend_growth_5y" -> Nullable(j.f.dividend_growth_5y)
      [] column = "intrinsic_value" -> Nullable(j.f.intrinsic_value)
      [] column = "margin_of_safety" -> Nullable(j.f.margin_of_safety)
      [] OTHER -> Nil
  ELSE IF j.p = <<>> THEN Nil
  ELSE CASE column = "ticker" -> StrVal(j.p[1].ticker)
         [] column = "close" -> FloatVal(j.p[1].close)
         [] column = "sma50" -> FloatVal(j.p[1].sma50)
         [] column = "sma200" -> FloatVal(j.p[1].sma200)

\* BINARY collation of the strings of the stores and the condition pool.
StringOrder ==
  <<"", "1", "AAPL", "DIS", "GOOGL", "MSFT", "TSLA", "negative", "neutral",
    "pos%", "positive", "stable", "x">>
StrRank(s) == CHOOSE k \in 1 .. Len(StringOrder) : StringOrder[k] = s

\* Text that looks like a number is compared as that number (hundredths).
NumericText == [s \in {"1"} |-> 100]
\* LIKE patterns with a wildcard and the strings they match.
WildcardMatches == [p \in {"pos%"} |-> {"positive"}]

IsNumber(v) == v.type \in {"float64", "int"}
NumOf(v) == IF v.type = "int" THEN v.num * 100 ELSE v.num

\* The SQLite ordering of two non-NULL values: numbers before text.
SQLKey(v) ==
  IF IsNumber(v) THEN <<0, NumOf(v)>>
  ELSE IF v.str \in DOMAIN NumericText THEN <<0, NumericText[v.str]>>
  ELSE <<1, StrRank(v.str)>>
KeyLess(a, b) == a[1] < b[1] \/ (a[1] = b[1] /\ a[2] < b[2])

\* left <operator> right is TRUE (not FALSE, not NULL).
SQLCompare(operator, left, right) ==
  IF left.type = "nil" \/ right.type = "nil" THEN FALSE
  ELSE LET a == SQLKey(left)
           b == SQLKey(right)
       IN CASE operator = "=" -> a = b
            [] operator = "!=" -> a # b
            [] operator = "<" -> KeyLess(a, b)
            [] operator = ">" -> KeyLess(b, a)
            [] operator = "<=" -> ~KeyLess(b, a)
            [] operator = ">=" -> ~KeyLess(a, b)

SQLLike(left, pattern) ==
  /\ left.type = "string" /\ pattern.type = "string"
  /\ IF pattern.str \in DOMAIN WildcardMatches
     THEN left.str \in WildcardMatches[pattern.str]
     ELSE left.str = pattern.str

\* The predicates buildSQLCondition writes, read back as SQLite reads them:
\* the column on the left, the operator, and a column or n placeholders on
\* the right.
ComputedPredicates ==
  [t \in {"p.close < p.sma50", "p.close > p.sma50", "p.close < p.sma200",
          "p.close > p.sma200", "f.intrinsic_value > p.close"} |->
     CASE t = "p.close < p.sma50" -> <<"p.", "close", "<", "p.", "sma50">>
       [] t = "p.close > p.sma50" -> <<"p.", "close", ">", "p.", "sma50">>
       [] t = "p.close < p.sma200" -> <<"p.", "close", "<", "p.", "sma200">>
       [] t = "p.close > p.sma200" -> <<"p.", "close", ">", "p.", "sma200">>
       [] t = "f.intrinsic_value > p.close" ->
            <<"f.", "intrinsic_value", ">", "p.", "close">>]

PlaceholderCount(pred) ==
  IF Len(pred) = 1 THEN 0
  ELSE Cardinality({k \in 1 .. Len(pred) : pred[k] \in {"?", "?,"}})
         + (IF pred[Len(pred)] \in {" ?", " LIKE ?"} THEN 1 ELSE 0)

\* The column on the left of a predicate: alias and name.
LeftColumn(pred) ==
  IF Len(pred) = 1
    THEN <<ComputedPredicates[pred[1]][1], ComputedPredicates[pred[1]][2]>>
  ELSE IF pred[1] \in {"f.", "p."} THEN <<pred[1], pred[2]>>
  ELSE <<"", pred[1]>>

\* The predicate is TRUE for the joined row, given its own bound parameters.
PredicateTrue(pred, params, j) ==
  LET left == ColumnValue(j, LeftColumn(pred)[1], LeftColumn(pred)[2])
  IN IF Len(pred) = 1
       THEN LET c == ComputedPredicates[pred[1]]
            IN SQLCompare(c[3], left, ColumnValue(j, c[4], c[5]))
     ELSE IF pred[Len(pred)] = ")"
       THEN \E k \in 1 .. Len(params) : SQLCompare("=", left, params[k])
     ELSE IF pred[Len(pred)] = " LIKE ?" THEN SQLLike(left, params[1])
     ELSE SQLCompare(pred[Len(pred) - 1], left, params[1])

RECURSIVE TotalPlaceholders(_), WhereTrue(_, _, _)
TotalPlaceholders(where) ==
  IF where = <<>> THEN 0
  ELSE PlaceholderCount(Head(where)) + TotalPlaceholders(Tail(where))

\* Every predicate of the WHERE clause is TRUE; each takes its parameters
\* from the front of the bound arguments.
WhereTrue(where, args, j) ==
  IF where = <<>> THEN TRUE
  ELSE LET n == PlaceholderCount(Head(where))
       IN /\ PredicateTrue(Head(where), SubSeq(args, 1, n), j)
          /\ WhereTrue(Tail(where), SubSeq(args, n + 1, Len(args)), j)

\* db.Query fails: a column the tables do not have, a number of arguments
\* other than the number of placeholders, an argument the driver cannot
\* bind, or OFFSET without LIMIT.
QueryFails(q) ==
  \/ \E k \in 1 .. Len(q.where) :
       ~ColumnKnown(LeftColumn(q.where[k])[1], LeftColumn(q.where[k])[2])
  \/ TotalPlaceholders(q.where) # Len(q.args)
  \/ \E k \in 1 .. Len(q.args) : q.args[k].type \in {"[]any", "[]string"}
  \/ q.offset > 0 /\ q.limit <= 0

\* The ORDER BY clauses of sanitizeSort as column and direction.
OrderColumn(clause) ==
  CASE clause \in {"f.pe_ratio ASC", "f.pe_ratio DESC"} -> <<"f.", "pe_ratio">>
    [] clause \in {"f.roe ASC", "f.roe DESC"} -> <<"f.", "roe">>
    [] clause \in {"p.close ASC", "p.close DESC"} -> <<"p.", "close">>
    [] clause \in {"f.dividend_yield ASC", "f.dividend_yield DESC"} ->
         <<"f.", "dividend_yield">>
    [] clause \in {"f.margin_of_safety ASC", "f.margin_of_safety DESC"} ->
         <<"f.", "margin_of_safety">>
    [] clause \in {"f.ticker ASC", "f.ticker DESC"} -> <<"f.", "ticker">>
OrderDescending(clause) ==
  clause \in {"f.pe_ratio DESC", "f.roe DESC", "p.close DESC",
              "f.dividend_yield DESC", "f.margin_of_safety DESC", "f.ticker DESC"}

\* NULL sorts before every value.
OrderKey(j, clause) ==
  LET v == ColumnValue(j, OrderColumn(clause)[1], OrderColumn(clause)[2])
  IN IF v.type = "nil" THEN <<-1, 0>> ELSE SQLKey(v)

\* The orders in which SQLite may return the rows: every permutation that
\* agrees with the ORDER BY clause (rows with equal keys come in any order,
\* all rows do without a clause).
RowOrders(rows, clause) ==
  {s \in [1 .. Cardinality(rows) -> rows] :
     /\ \A a, b \in 1 .. Cardinality(rows) : a # b => s[a] # s[b]
     /\ clause # "" =>
          \A a, b \in 1 .. Cardinality(rows) :
            a < b =>
              IF OrderDescending(clause)
              THEN ~KeyLess(OrderKey(s[a], clause), OrderKey(s[b], clause))
              ELSE ~KeyLess(OrderKey(s[b], clause), OrderKey(s[a], clause))}

\* LIMIT and OFFSET: without a LIMIT clause every row.
Page(s, limit, offset) ==
  IF limit <= 0 THEN s
  ELSE SubSeq(s, (IF offset > 0 THEN offset ELSE 0) + 1,
              IF (IF offset > 0 THEN offset ELSE 0) + limit < Len(s)
              THEN (IF offset > 0 THEN offset ELSE 0) + limit ELSE Len(s))

Coalesce(c) == IF c = Null THEN 0 ELSE c[1]

\* rows.Scan into a ScreenerResult: the COALESCE'd columns of the SELECT.
Scan(j) ==
  [Ticker |-> j.f.ticker,
   PE |-> Coalesce(j.f.pe_ratio),
   ROE |-> Coalesce(j.f.roe),
   Close |-> IF j.p = <<>> THEN 0 ELSE j.p[1].close,
   SMA50 |-> IF j.p = <<>> THEN 0 ELSE j.p[1].sma50,
   SMA200 |-> IF j.p = <<>> THEN 0 ELSE j.p[1].sma200,
   EarningsOutlook |-> j.f.earnings_outlook,
   DividendYield |-> Coalesce(j.f.dividend_yield),
   DividendGrowth5Y |-> Coalesce(j.f.dividend_growth_5y),
   IntrinsicValue |-> Coalesce(j.f.intrinsic_value),
   MarginOfSafety |-> Coalesce(j.f.margin_of_safety)]

\* db.Query(query, args...) and the scan loop: the result lists SQLite may
\* return for the query over the store.
QueryResults(fu, pr, q) ==
  LET matching == {j \in JoinedRows(fu, pr) : WhereTrue(q.where, q.args, j)}
  IN {[k \in 1 .. Len(p) |-> Scan(p[k])] :
        p \in {Page(s, q.limit, q.offset) : s \in RowOrders(matching, q.order)}}

---------------------------------------------------------------------------
(* Screening engine: actions *)

\* FilterBuilder.AddCondition
AddCondition ==
  /\ ~screen.called
  /\ Len(filter.Conditions) < MaxConds
  /\ \E c \in CondPool :
       filter' = [filter EXCEPT !.Conditions = Append(@, c)]
  /\ UNCHANGED <<screen>>
  /\ UNCHANGED <<orchVars, httpVars, cacheVars, clientVars, callVars>>

\* ScreenStocks(db, filter): the outcomes of one call.  Building the query
\* may panic; db.Query may fail ("query execution failed"); otherwise the
\* rows are scanned into the result list.
ScreenStocksCalls(fu, pr, f) ==
  LET q == buildQuery(f)
  IN IF q.panic
       THEN {[called |-> TRUE, panicked |-> TRUE, submitted |-> FALSE, err |-> "",
              text |-> <<>>, where |-> <<>>, args |-> <<>>, results |-> <<>>]}
     ELSE IF QueryFails(q)
       THEN {[called |-> TRUE, panicked |-> FALSE, submitted |-> TRUE,
              err |-> "query execution failed",
              text |-> q.text, where |-> q.where, args |-> q.args,
              results |-> <<>>]}
     ELSE {[called |-> TRUE, panicked |-> FALSE, submitted |-> TRUE, err |-> "",
            text |-> q.text, where |-> q.where, args |-> q.args, results |-> r] :
             r \in QueryResults(fu, pr, q)}

\* BuildWithPagination(sort, limit, offset) and ScreenStocks(db, filter).
ScreenStocks ==
  /\ ~screen.called
  /\ \E sort \in SortPool, limit \in LimitPool, offset \in OffsetPool :
       \E call \in ScreenStocksCalls(fundamentals, prices,
                     [filter EXCEPT !.Sort = sort, !.Limit = limit, !.Offset = offset]) :
          /\ filter' = [filter EXCEPT !.Sort = sort, !.Limit = limit, !.Offset = offset]
          /\ screen' = call
  /\ UNCHANGED <<orchVars, httpVars, cacheVars, clientVars, callVars>>

InitScreen ==
  /\ provider = [t \in {Universe[i] : i \in 1 .. Len(Universe)} |->
                   [eod |-> "exact_asc", fund |-> "ok", div |-> "ok"]]
  /\ prices = {}
  /\ fundamentals = {}
  /\ pc = "idle"
  /\ idx = 1
  /\ attempted = <<>>
  /\ lastCall = NoCall
  /\ runs = 0
  /\ afterFirst = NoSnapshot
  /\ filter = EmptyFilter
  /\ screen = NoScreen
  /\ request = NoRequest
  /\ response = NoResponse
  /\ CacheIdle
  /\ ClientIdle
  /\ session = NoSession
  /\ sma = NoSMA
  /\ today = AnyDay

NextScreen ==
  \/ AddCondition
  \/ ScreenStocks

SpecScreen == InitScreen /\ [][NextScreen]_vars

---------------------------------------------------------------------------
(* Screening engine over a populated store *)

FundamentalsRow(ticker, pe, roe, outlook, divYield, divGrowth, intrinsic, margin) ==
  [ticker |-> ticker, roe |-> Some(roe), pe_ratio |-> Some(pe),
   earnings_outlook |-> outlook, updated_at |-> 0,
   dividend_yield |-> Some(divYield), dividend_growth_5y |-> Some(divGrowth),
   intrinsic_value |-> Some(intrinsic), margin_of_safety |-> Some(margin)]
PriceRow(ticker, date, close, sma50, sma200) ==
  [ticker |-> ticker, date |-> date, close |-> close, sma50 |-> sma50,
   sma200 |-> sma200]

\* Rows of InsertSampleData, in hundredths (AAPL's yield of 0.005 as 1).
SampleFundamentals ==
  {FundamentalsRow("AAPL", 1450, 25, "positive", 1, 8, 18050, 25),
   FundamentalsRow("GOOGL", 1310, 18, "positive", 0, 0, 310000, 15),
   FundamentalsRow("TSLA", 4520, 15, "neutral", 0, 0, 80000, -5)}
SamplePrices ==
  {PriceRow("AAPL", 20240115, 15025, 14580, 14030),
   PriceRow("GOOGL", 20240115, 275080, 272050, 268020),
   PriceRow("TSLA", 20240115, 22045, 23560, 24590)}

\* A store after nightly runs: an older AAPL price row below both averages,
\* an MSFT row as SaveROE leaves it (valuation columns NULL), and DIS
\* without a price row.
NightlyFundamentals ==
  {FundamentalsRow("AAPL", 1450, 25, "positive", 1, 8, 18050, 25),
   FundamentalsRow("GOOGL", 1310, 18, "positive", 0, 0, 310000, 15),
   FundamentalsRow("DIS", 2210, 8, "neutral", 0, 0, 11000, 8)}
    \cup SaveROE({}, "MSFT", 22, 1250, "positive", 1)
NightlyPrices ==
  SaveSMA(SaveSMA(SamplePrices \ {PriceRow("TSLA", 20240115, 22045, 23560, 24590)},
                  "AAPL", 20240112, 14000, 14500, 14100),
          "MSFT", 20240115, 33059, 32520, 31580)

StorePool ==
  {[fundamentals |-> {}, prices |-> {}],
   [fundamentals |-> SampleFundamentals, prices |-> SamplePrices],
   [fundamentals |-> NightlyFundamentals, prices |-> NightlyPrices]}

\* Conditions of the presets and tests, with the conditions the translator
\* drops or SQLite rejects.
EngineCondPool ==
  {Cond("pe_ratio", "<", FloatVal(1500)),
   Cond("roe", ">", FloatVal(15)),
   Cond("close", ">", FloatVal(20000)),
   Cond("price_vs_sma50", "<", FloatVal(100)),
   Cond("price_vs_sma200", ">", FloatVal(100)),
   Cond("intrinsic_vs_price", ">", FloatVal(100)),
   Cond("earnings_outlook", "=", StrVal("positive")),
   Cond("earnings_outlook", "LIKE", StrVal("pos%")),
   Cond("ticker", "IN", Strings(<<"AAPL", "MSFT">>)),
   Cond("ticker", "IN", Anys(<<"AAPL">>)),
   Cond("market_cap", ">", FloatVal(100000)),
   Cond("roe", "!=", Nil)}

\* Filters of zero, one and two conditions, in both orders.
FilterPool ==
  {<<>>} \cup {<<c>> : c \in EngineCondPool}
         \cup {<<c, d>> : c \in EngineCondPool, d \in EngineCondPool}

InitEngine ==
  /\ provider = [t \in {Universe[i] : i \in 1 .. Len(Universe)} |->
                   [eod |-> "exact_asc", fund |-> "ok", div |-> "ok"]]
  /\ \E store \in StorePool :
       /\ prices = store.prices
       /\ fundamentals = store.fundamentals
  /\ pc = "idle"
  /\ idx = 1
  /\ attempted = <<>>
  /\ lastCall = NoCall
  /\ runs = 0
  /\ afterFirst = NoSnapshot
  /\ filter \in {[EmptyFilter EXCEPT !.Conditions = conds] : conds \in FilterPool}
  /\ screen = NoScreen
  /\ request = NoRequest
  /\ response = NoResponse
  /\ CacheIdle
  /\ ClientIdle
  /\ session = NoSession
  /\ sma = NoSMA
  /\ today = AnyDay

NextEngine == ScreenStocks

SpecEngine == InitEngine /\ [][NextEngine]_vars

---------------------------------------------------------------------------
(* HTTP handler: integers of the query string *)

\* A Go int has 64 bits.  Its magnitude is kept as four limbs of 16 bits,
\* least significant first, so that no step of the arithmetic leaves the
\* range of the checker's integers.
LimbBase == 256 * 256
Limbs(n) == <<n % LimbBase, n \div LimbBase, 0, 0>>
ZeroLimbs == <<0, 0, 0, 0>>

\* x * k + a for a small k and a: the low 64 bits and the carry out of them.
MulAdd(x, k, a) ==
  LET c1 == x[1] * k + a
      c2 == x[2] * k + c1 \div LimbBase
      c3 == x[3] * k + c2 \div LimbBase
      c4 == x[4] * k + c3 \div LimbBase
  IN [limbs |-> <<c1 % LimbBase, c2 % LimbBase, c3 % LimbBase, c4 % LimbBase>>,
      carry |-> c4 \div LimbBase]

\* x - 1 for x >= 1.
Decrement(x) ==
  IF x[1] > 0 THEN <<x[1] - 1, x[2], x[3], x[4]>>
  ELSE IF x[2] > 0 THEN <<LimbBase - 1, x[2] - 1, x[3], x[4]>>
  ELSE IF x[3] > 0 THEN <<LimbBase - 1, LimbBase - 1, x[3] - 1, x[4]>>
  ELSE <<LimbBase - 1, LimbBase - 1, LimbBase - 1, x[4] - 1>>

\* The sign bit of the 64 bits read as a two's complement int.
SignBit(x) == x[4] >= LimbBase \div 2

\* Values the model names by themselves are below Beyond; a larger int
\* stands as Beyond and a negative one as -Beyond (more than any number of
\* rows of a store, which is all the query does with a LIMIT or an OFFSET).
Beyond == 32768 * 32768
IsSmall(x) == x[4] = 0 /\ x[3] = 0 /\ x[2] < LimbBase \div 4
ToInt(x) ==
  IF SignBit(x) THEN 0 - Beyond
  ELSE IF IsSmall(x) THEN x[1] + LimbBase * x[2]
  ELSE Beyond

Digits == <<"0", "1", "2", "3", "4", "5", "6", "7", "8", "9">>
IsDigit(ch) == \E d \in 1 .. 10 : Digits[d] = ch
DigitOf(ch) == (CHOOSE d \in 1 .. 10 : Digits[d] = ch) - 1

\* The digit loop of strconv: n = n*10 + digit, with the magnitude leaving
\* 64 bits noted.
RECURSIVE Accumulate(_, _)
Accumulate(s, acc) ==
  IF s = <<>> \/ ~acc.ok THEN acc
  ELSE IF ~IsDigit(Head(s)) THEN [acc EXCEPT !.ok = FALSE]
  ELSE LET m == MulAdd(acc.mag, 10, DigitOf(Head(s)))
       IN Accumulate(Tail(s),
            [ok |-> TRUE, mag |-> m.limbs, range |-> acc.range \/ m.carry > 0])

\* strconv.Atoi on the characters of s: an optional sign and decimal
\* digits; a syntax error otherwise, a range error outside of int64.
AtoiError == [ok |-> FALSE, neg |-> FALSE, mag |-> ZeroLimbs]
Atoi(s) ==
  IF s = <<>> THEN AtoiError
  ELSE LET signed == Head(s) \in {"-", "+"}
           body == IF signed THEN Tail(s) ELSE s
       IN IF body = <<>> THEN AtoiError
          ELSE \* bound once: the loop is the costly part
            LET acc == Accumulate(body, [ok |-> TRUE, mag |-> ZeroLimbs, range |-> FALSE])
                neg == Head(s) = "-"
            IN IF ~acc.ok \/ acc.range THEN AtoiError
               ELSE IF SignBit(acc.mag)
                       /\ ~(neg /\ acc.mag = <<0, 0, 0, LimbBase \div 2>>)
                 THEN AtoiError
               ELSE [ok |-> TRUE, neg |-> neg /\ acc.mag # ZeroLimbs, mag |-> acc.mag]

parseIntParam(param, defaultValue) ==
  IF param = <<>> THEN [ok |-> TRUE, neg |-> FALSE, mag |-> Limbs(defaultValue)]
  ELSE Atoi(param)

DefaultPage == 1
DefaultLimit == 50
MaxLimit == 1000

\* page < 1, limit < 1 and limit > 1000 on a parsed int.
BelowOne(n) == n.neg \/ n.mag = ZeroLimbs
Above(n, k) == ~n.neg /\ (~IsSmall(n.mag) \/ ToInt(n.mag) > k)

\* An offset of page * limit.
OffsetOf_PageTimesLimit(page, limit) == MulAdd(page.mag, ToInt(limit.mag), 0).limbs

\* offset := (page - 1) * limit in 64 bits: the product wraps around.
OffsetOf(page, limit) == MulAdd(Decrement(page.mag), ToInt(limit.mag), 0).limbs

---------------------------------------------------------------------------
(* HTTP handler: the filters parameter *)

\* The text of the parameter as its JSON tokens; "word" is text that is no
\* JSON token.  Numbers are in hundredths.
Tok(kind, str, num) == [kind |-> kind, str |-> str, num |-> num]
LB == Tok("[", "", 0)
RB == Tok("]", "", 0)
CM == Tok(",", "", 0)
LC == Tok("{", "", 0)
RC == Tok("}", "", 0)
TStr(x) == Tok("string", x, 0)
TNum(n) == Tok("number", "", n)
TNull == Tok("null", "", 0)
TWord(x) == Tok("word", x, 0)

\* A decoded JSON value.
JSON(kind, str, num, items) == [kind |-> kind, str |-> str, num |-> num, items |-> items]
JNull == JSON("null", "", 0, <<>>)
JObject == JSON("object", "", 0, <<>>)
JArray(items) == JSON("array", "", 0, items)
ParseError == [ok |-> FALSE, v |-> JNull, next |-> 0]
Parsed(v, next) == [ok |-> TRUE, v |-> v, next |-> next]

\* The decoder's scan of one value starting at token i.
RECURSIVE ParseValue(_, _), ParseElements(_, _, _)
ParseValue(toks, i) ==
  IF i > Len(toks) THEN ParseError
  ELSE IF toks[i].kind = "string"
    THEN Parsed(JSON("string", toks[i].str, 0, <<>>), i + 1)
  ELSE IF toks[i].kind = "number"
    THEN Parsed(JSON("number", "", toks[i].num, <<>>), i + 1)
  ELSE IF toks[i].kind = "null" THEN Parsed(JNull, i + 1)
  ELSE IF toks[i].kind = "{"
    THEN IF i + 1 <= Len(toks) /\ toks[i + 1].kind = "}"
         THEN Parsed(JObject, i + 2) ELSE ParseError
  ELSE IF toks[i].kind = "["
    THEN IF i + 1 <= Len(toks) /\ toks[i + 1].kind = "]"
         THEN Parsed(JArray(<<>>), i + 2)
         ELSE ParseElements(toks, i + 1, <<>>)
  ELSE ParseError
ParseElements(toks, i, acc) ==
  LET r == ParseValue(toks, i)
  IN
    IF ~r.ok \/ r.next > Len(toks) THEN ParseError
    ELSE IF toks[r.next].kind = "," THEN ParseElements(toks, r.next + 1, Append(acc, r.v))
    ELSE IF toks[r.next].kind = "]" THEN Parsed(JArray(Append(acc, r.v)), r.next + 1)
    ELSE ParseError

\* The whole text is one JSON value.
ParseJSON(toks) ==
  LET r == ParseValue(toks, 1)
  IN IF r.ok /\ r.next = Len(toks) + 1 THEN r ELSE ParseError

\* A decoded value as a Go any: a number is a float64, a list a []any (of
\* the strings it holds), null is nil.
ToAny(v) ==
  CASE v.kind = "number" -> FloatVal(v.num)
    [] v.kind = "string" -> StrVal(v.str)
    [] v.kind = "array" -> Anys([k \in 1 .. Len(v.items) |-> v.items[k].str])
    [] v.kind = "null" -> Nil
    [] OTHER -> Val("map[string]any", 0, "", <<>>)

\* json.Unmarshal(text, &rawConditions) with rawConditions a [][]any: null
\* leaves a nil slice, at either level; anything else that is not a list is
\* an error.
Unmarshal(toks) ==
  LET r == ParseJSON(toks)
  IN IF ~r.ok THEN [err |-> TRUE, raw |-> <<>>]
     ELSE IF r.v.kind = "null" THEN [err |-> FALSE, raw |-> <<>>]
     ELSE IF r.v.kind # "array" THEN [err |-> TRUE, raw |-> <<>>]
     ELSE IF \E k \in 1 .. Len(r.v.items) : r.v.items[k].kind \notin {"array", "null"}
       THEN [err |-> TRUE, raw |-> <<>>]
     ELSE [err |-> FALSE,
           raw |-> [k \in 1 .. Len(r.v.items) |-> r.v.items[k].items]]

mapFieldName_Identity(field) == field

mapFieldName(field) ==
  CASE field = "market_capitalization" -> "market_cap"
    [] field = "dividend_yield" -> "dividend_yield"
    [] field = "earnings_share" -> "eps"
    [] field = "sector" -> "sector"
    [] field = "industry" -> "industry"
    [] field = "exchange" -> "exchange"
    [] field = "refund_5d_p" -> "return_5d"
    [] field = "avgvol_200d" -> "avg_volume_200d"
    [] field = "type" -> "asset_type"
    [] OTHER -> field

ParsedFilter(conds) ==
  [err |-> "", filter |-> [Conditions |-> conds, Sort |-> "pe_ratio ASC",
                           Limit |-> 50, Offset |-> 0]]
FilterError(msg) == [err |-> msg, filter |-> EmptyFilter]

\* The loop of ParseFilterFromJSON over the raw conditions.
RECURSIVE ParseConditions(_, _)
ParseConditions(raws, acc) ==
  IF raws = <<>> THEN ParsedFilter(acc)
  ELSE LET raw == Head(raws)
       IN IF Len(raw) # 3
            THEN FilterError("invalid condition format: expected [field, operator, value]")
          ELSE IF raw[1].kind # "string" THEN FilterError("field must be a string")
          ELSE IF raw[2].kind # "string" THEN FilterError("operator must be a string")
          ELSE ParseConditions(Tail(raws),
                 Append(acc, Cond(mapFieldName(raw[1].str), raw[2].str, ToAny(raw[3]))))

ParseFilterFromJSON(filterJSON) ==
  IF filterJSON = <<>> THEN ParsedFilter(<<>>)
  ELSE LET u == Unmarshal(filterJSON)
       IN IF u.err THEN FilterError("invalid filter JSON")
          ELSE ParseConditions(u.raw, <<>>)

---------------------------------------------------------------------------
(* HTTP handler: GET /api/screener *)

Response(status, error, message, data, page, limit, total_count, has_more) ==
  [status |-> status, error |-> error, message |-> message, data |-> data,
   page |-> page, limit |-> limit, total_count |-> total_count,
   has_more |-> has_more]
sendError(statusCode, errorCode, message) ==
  Response(statusCode, errorCode, message, <<>>, 0, 0, 0, FALSE)

StatusOK == 200
StatusBadRequest == 400
StatusMethodNotAllowed == 405
StatusInternalServerError == 500

\* An outcome of the handler: the response, and the filter and the call of
\* ScreenStocks if it came to one.
NotScreened(resp) == [response |-> resp, filter |-> EmptyFilter, screen |-> NoScreen]

\* results[:limit]
Truncate(results, limit) ==
  IF Len(results) > limit THEN SubSeq(results, 1, limit) ELSE results

\* GetScreenerData(w, r) over the store: the responses it may write.
GetScreenerDataOutcomes(fu, pr, req) ==
  LET page == parseIntParam(req.page, DefaultPage)
      limit == parseIntParam(req.limit, DefaultLimit)
      baseFilter == ParseFilterFromJSON(req.filters)
      sort == IF req.sort = "" THEN "pe_ratio.asc" ELSE req.sort
  IN
  IF req.method # "GET"
    THEN {NotScreened(sendError(StatusMethodNotAllowed, "METHOD_NOT_ALLOWED",
                                "Only GET method is allowed"))}
  ELSE IF ~page.ok \/ BelowOne(page)
    THEN {NotScreened(sendError(StatusBadRequest, "INVALID_PAGE",
                                "Page must be a positive integer"))}
  ELSE IF ~limit.ok \/ BelowOne(limit) \/ Above(limit, MaxLimit)
    THEN {NotScreened(sendError(StatusBadRequest, "INVALID_LIMIT",
                                "Limit must be between 1 and 1000"))}
  ELSE IF baseFilter.err # ""
    THEN {NotScreened(sendError(StatusBadRequest, "INVALID_FILTER",
                                "Invalid filter format: "))}
  ELSE
    LET f == [Conditions |-> baseFilter.filter.Conditions,
              Sort |-> sort,
              Limit |-> ToInt(limit.mag) + 1,
              Offset |-> ToInt(OffsetOf(page, limit))]
    IN {[response |->
           IF call.panicked THEN NoResponse
           ELSE IF call.err # ""
             THEN sendError(StatusInternalServerError, "SCREENER_ERROR",
                            "Failed to fetch screener data")
           ELSE Response(StatusOK, "", "",
                         Truncate(call.results, ToInt(limit.mag)),
                         ToInt(page.mag), ToInt(limit.mag),
                         Len(Truncate(call.results, ToInt(limit.mag))),
                         Len(call.results) > ToInt(limit.mag)),
         filter |-> f,
         screen |-> call] : call \in ScreenStocksCalls(fu, pr, f)}

\* The page parameter, as its characters: absent, in range, signed, not a
\* number, and at the ends of the 64 bits.
PagePool ==
  {<<>>,
   <<"1">>,
   <<"2">>,
   <<"3">>,
   <<"4">>,
   <<"+", "2">>,
   <<"0">>,
   <<"-", "1">>,
   <<"a", "b", "c">>,
   <<"1", ".", "5">>,
   <<"2", "3", "0", "5", "8", "4", "3", "0", "0", "9", "2", "1", "3", "6", "9", "3", "9", "5", "3">>,
   <<"4", "6", "1", "1", "6", "8", "6", "0", "1", "8", "4", "2", "7", "3", "8", "7", "9", "0", "5">>,
   <<"9", "2", "2", "3", "3", "7", "2", "0", "3", "6", "8", "5", "4", "7", "7", "5", "8", "0", "7">>,
   <<"9", "2", "2", "3", "3", "7", "2", "0", "3", "6", "8", "5", "4", "7", "7", "5", "8", "0", "8">>}

\* The limit parameter.
PageLimitPool ==
  {<<>>,
   <<"1">>,
   <<"2">>,
   <<"8">>,
   <<"1", "0", "0", "0">>,
   <<"0">>,
   <<"1", "0", "0", "1">>,
   <<"-", "5">>,
   <<"x">>}

\* The filters parameter: absent, the documented forms, and texts that are
\* no list of triples.
Triple(field, operator, value) ==
  <<LB, TStr(field), CM, TStr(operator), CM>> \o value \o <<RB>>
FiltersPool ==
  {<<>>,
   <<LB>> \o Triple("pe_ratio", "<", <<TNum(1500)>>) \o <<RB>>,
   <<LB>> \o Triple("pe_ratio", "<", <<TNum(1500)>>) \o <<CM>>
          \o Triple("roe", ">", <<TNum(15)>>) \o <<RB>>,
   <<LB>> \o Triple("earnings_outlook", "=", <<TStr("positive")>>) \o <<RB>>,
   <<LB>> \o Triple("price_vs_sma50", "<", <<TNum(100)>>) \o <<RB>>,
   <<LB>> \o Triple("dividend_yield", ">=", <<TNum(0)>>) \o <<RB>>,
   <<LB>> \o Triple("ticker", "IN", <<LB, TStr("AAPL"), RB>>) \o <<RB>>,
   <<LB>> \o Triple("market_capitalization", ">", <<TNum(100000)>>) \o <<RB>>,
   <<LB>> \o Triple("roe", "!=", <<TNull>>) \o <<RB>>,
   <<LB, RB>>,
   <<TNull>>,
   <<LB, TNull, RB>>,
   <<LC, RC>>,
   <<TNum(100)>>,
   <<LB, TStr("pe_ratio"), RB>>,
   <<TWord("invalid"), TWord("json")>>,
   <<LB>> \o Triple("pe_ratio", "<", <<TNum(1500)>>),
   <<LB, LB, TStr("pe_ratio"), CM, TStr("<"), RB, RB>>,
   <<LB, LB, TStr("pe_ratio"), CM, TStr("<"), CM, TNum(1500), CM, TNum(1), RB, RB>>,
   <<LB, LB, TNum(100), CM, TStr("<"), CM, TNum(1500), RB, RB>>,
   <<LB, LB, TStr("pe_ratio"), CM, TNum(100), CM, TNum(1500), RB, RB>>,
   <<LB>> \o Triple("pe_ratio", "<", <<TNum(1500)>>) \o <<CM>>
          \o <<LB, TStr("roe"), RB, RB>>}

MethodPool == {"GET", "POST"}
RequestSortPool == {"", "pe_ratio.desc", "ticker.asc"}

GetScreenerData ==
  /\ response = NoResponse
  /\ \E method \in MethodPool, page \in PagePool, limit \in PageLimitPool,
        filters \in FiltersPool, sort \in RequestSortPool :
       \E out \in GetScreenerDataOutcomes(fundamentals, prices,
                    [method |-> method, page |-> page, limit |-> limit,
                     filters |-> filters, sort |-> sort]) :
         /\ request' = [method |-> method, page |-> page, limit |-> limit,
                        filters |-> filters, sort |-> sort]
         /\ response' = out.response
         /\ filter' = out.filter
         /\ screen' = out.screen
  /\ UNCHANGED <<orchVars, cacheVars, clientVars, callVars>>

InitHandler ==
  /\ provider = [t \in {Universe[i] : i \in 1 .. Len(Universe)} |->
                   [eod |-> "exact_asc", fund |-> "ok", div |-> "ok"]]
  /\ \E store \in StorePool :
       /\ prices = store.prices
       /\ fundamentals = store.fundamentals
  /\ pc = "idle"
  /\ idx = 1
  /\ attempted = <<>>
  /\ lastCall = NoCall
  /\ runs = 0
  /\ afterFirst = NoSnapshot
  /\ filter = EmptyFilter
  /\ screen = NoScreen
  /\ request = NoRequest
  /\ response = NoResponse
  /\ CacheIdle
  /\ ClientIdle
  /\ session = NoSession
  /\ sma = NoSMA
  /\ today = AnyDay

NextHandler == GetScreenerData

SpecHandler == InitHandler /\ [][NextHandler]_vars

---------------------------------------------------------------------------
(* A client of the handler that pages through a result *)

MaxPages == 5

\* The parameters a client keeps while it pages: a limit, a filter and a
\* sort; dividend_yield is equal for some tickers of the stores, and the
\* last filter makes the query fail.
SessionLimitPool == {<<"1">>, <<"2">>}
SessionFiltersPool ==
  {<<>>,
   <<LB>> \o Triple("pe_ratio", "<", <<TNum(1500)>>) \o <<RB>>,
   <<LB>> \o Triple("dividend_yield", ">=", <<TNum(0)>>) \o <<RB>>,
   <<LB>> \o Triple("earnings_outlook", "=", <<TStr("positive")>>) \o <<RB>>,
   <<LB>> \o Triple("roe", "!=", <<TNull>>) \o <<RB>>}
SessionSortPool == {"", "pe_ratio.desc", "ticker.asc", "dividend_yield.asc"}

\* The tickers of a page, as the client reads them from "data".
TickersOf(data) == [k \in 1 .. Len(data) |-> data[k].Ticker]

\* GET /api/screener for the page after the last one, as long as the last
\* response said has_more; the client keeps the tickers and the has_more
\* flag of every page.
GetScreenerData_NextPage ==
  /\ session.open
  /\ ~session.failed
  /\ session.page < MaxPages
  /\ IF session.more = <<>> THEN TRUE ELSE session.more[Len(session.more)]
  /\ \E req \in {[method |-> "GET", page |-> <<ToString(session.page + 1)>>,
                   limit |-> session.limit, filters |-> session.filters,
                   sort |-> session.sort]} :
       \E out \in GetScreenerDataOutcomes(fundamentals, prices, req) :
         /\ request' = req
         /\ response' = out.response
         /\ filter' = out.filter
         /\ screen' = out.screen
         /\ session' =
              IF out.response.status = StatusOK
              THEN [session EXCEPT !.page = @ + 1,
                                   !.tickers = @ \o TickersOf(out.response.data),
                                   !.more = Append(@, out.response.has_more)]
              ELSE [session EXCEPT !.page = @ + 1, !.failed = TRUE]
  /\ UNCHANGED <<orchVars, cacheVars, clientVars, sma, today>>

InitPaging ==
  /\ provider = [t \in {Universe[i] : i \in 1 .. Len(Universe)} |->
                   [eod |-> "exact_asc", fund |-> "ok", div |-> "ok"]]
  /\ \E store \in StorePool :
       /\ prices = store.prices
       /\ fundamentals = store.fundamentals
  /\ pc = "idle"
  /\ idx = 1
  /\ attempted = <<>>
  /\ lastCall = NoCall
  /\ runs = 0
  /\ afterFirst = NoSnapshot
  /\ filter = EmptyFilter
  /\ screen = NoScreen
  /\ request = NoRequest
  /\ response = NoResponse
  /\ CacheIdle
  /\ ClientIdle
  /\ session \in {[NoSession EXCEPT !.open = TRUE, !.limit = limit,
                                    !.filters = filters, !.sort = sort] :
                    limit \in SessionLimitPool, filters \in SessionFiltersPool,
                    sort \in SessionSortPool}
  /\ sma = NoSMA
  /\ today = AnyDay

NextPaging == GetScreenerData_NextPage

SpecPaging == InitPaging /\ [][NextPaging]_vars

---------------------------------------------------------------------------
(* Data cache: Cache.Get and Cache.Set over the badger store *)

MaxClock == 6

\* time.Time.Unix(): whole seconds.
Unix(t) == t \div TicksPerSecond

\* Entry.WithTTL(ttl) without an expiry.
WithTTL_Never(now, ttl) == 0

\* Entry.WithTTL(ttl): ExpiresAt is time.Now().Add(ttl).Unix().
WithTTL(now, ttl) == Unix(now + ttl)

\* A store that finds no key.
ErrKeyNotFound_Always(entry, now) == TRUE

\* txn.Get answers ErrKeyNotFound for a key that is absent or expired:
\* ExpiresAt is set and not after time.Now().Unix().
ErrKeyNotFound(entry, now) ==
  \/ ~entry.present
  \/ entry.expiresAt # 0 /\ entry.expiresAt <= Unix(now)

\* Cached values: price series as the provider client decodes them (closes
\* in cents).  json.Marshal writes a list of numbers.
CacheValuePool == {<<15025>>, <<15025, 14580>>}
RECURSIVE MarshalItems(_)
MarshalItems(value) ==
  IF value = <<>> THEN <<>>
  ELSE IF Len(value) = 1 THEN <<TNum(Head(value))>>
  ELSE <<TNum(Head(value)), CM>> \o MarshalItems(Tail(value))
Marshal(value) == <<LB>> \o MarshalItems(value) \o <<RB>>

\* json.Unmarshal(raw, out) with out a list of numbers.
UnmarshalSeries(raw) ==
  LET r == ParseJSON(raw)
  IN IF ~r.ok \/ r.v.kind # "array"
          \/ \E k \in 1 .. Len(r.v.items) : r.v.items[k].kind # "number"
     THEN [err |-> TRUE, value |-> <<>>]
     ELSE [err |-> FALSE, value |-> [k \in 1 .. Len(r.v.items) |-> r.v.items[k].num]]

\* The ttl of a Set, in half seconds: none, one second, a second and a
\* half.
TTLPool == {0, 2, 3}

\* Cache.Set(key, value, ttl)
CacheSet ==
  /\ \E key \in CacheKeys, value \in CacheValuePool, ttl \in TTLPool :
       /\ cache' = [cache EXCEPT ![key] =
                      [present |-> TRUE, bytes |-> Marshal(value),
                       expiresAt |-> WithTTL(clock, ttl)]]
       /\ sets' = [sets EXCEPT ![key] =
                     [present |-> TRUE, value |-> value, at |-> clock, ttl |-> ttl]]
  /\ UNCHANGED <<clock, got, orchVars, screenVars, httpVars,
               clientVars, callVars>>

\* Cache.Get(key, out) on the entry of the key: found, error and the value
\* decoded into out.
CacheLookup(entry, now) ==
  IF ErrKeyNotFound(entry, now)
    THEN [found |-> FALSE, err |-> FALSE, value |-> <<>>]
  ELSE IF UnmarshalSeries(entry.bytes).err
    THEN [found |-> FALSE, err |-> TRUE, value |-> <<>>]
  ELSE [found |-> TRUE, err |-> FALSE, value |-> UnmarshalSeries(entry.bytes).value]

\* Cache.Get(key, out)
CacheGet ==
  /\ \E key \in CacheKeys :
       got' = [key |-> key,
               found |-> CacheLookup(cache[key], clock).found,
               err |-> CacheLookup(cache[key], clock).err,
               value |-> CacheLookup(cache[key], clock).value,
               at |-> clock, last |-> sets[key]]
  /\ UNCHANGED <<cache, clock, sets, orchVars, screenVars, httpVars,
               clientVars, callVars>>

\* Half a second passes.
Tick ==
  /\ clock < MaxClock
  /\ clock' = clock + 1
  /\ UNCHANGED <<cache, sets, got, orchVars, screenVars, httpVars,
               clientVars, callVars>>

NextCache ==
  \/ CacheSet
  \/ CacheGet
  \/ Tick

SpecCache == InitScreen /\ [][NextCache]_vars

---------------------------------------------------------------------------
(* Provider client: Client.get over the cache and the upstream API *)

MaxRequests == 2
MaxWaits == 2

\* 24*time.Hour, in half seconds.
ClientTTL == 24 * 3600 * TicksPerSecond

\* What c.client.Get(fullURL) may answer: no answer (a network failure), a
\* status other than 200, 200 with a body that is cut off, and 200 with the
\* series of the key.
Answer(failed, status, body) == [failed |-> failed, status |-> status, body |-> body]
UpstreamPool ==
  {Answer(TRUE, 0, <<>>),
   Answer(FALSE, 500, <<TWord("error")>>),
   Answer(FALSE, 200, <<LB, TNum(15025), CM>>)}
    \cup {Answer(FALSE, 200, Marshal(value)) : value \in CacheValuePool}

\* A decoder that takes every body.
Decode_Lenient(body) ==
  [err |-> FALSE,
   value |-> IF UnmarshalSeries(body).err THEN <<>> ELSE UnmarshalSeries(body).value]

\* json.NewDecoder(resp.Body).Decode(v)
Decode(body) == UnmarshalSeries(body)

\* The time that passes between two steps: half a second, or half a second
\* less than a day.
WaitPool == {1, ClientTTL - 1}

\* GetEODData and its like call c.get(endpoint, params, &result) with a
\* fresh result.
ClientCall(c) ==
  /\ clients[c].pc \in {"idle", "done"}
  /\ steps.requests < MaxRequests
  /\ \E key \in CacheKeys :
       clients' = [clients EXCEPT ![c] = [NoClient EXCEPT !.pc = "cacheGet", !.key = key]]
  /\ steps' = [steps EXCEPT !.requests = @ + 1]
  /\ UNCHANGED <<fetched, cacheVars, orchVars, screenVars, httpVars, callVars>>

\* found, err := c.cache.Get(fullURL, v): a read error (of the store, or
\* of the decoding) ends the call, a hit ends it with v filled.
ClientCacheGet(c) ==
  /\ clients[c].pc = "cacheGet"
  /\ \E readError \in BOOLEAN :
       LET r == CacheLookup(cache[clients[c].key], clock)
       IN clients' = [clients EXCEPT ![c] =
            [@ EXCEPT !.pc = IF readError \/ r.err \/ r.found THEN "done" ELSE "httpGet",
                      !.err = IF readError \/ r.err THEN "cache get error" ELSE "",
                      !.v = IF ~readError /\ r.found THEN r.value ELSE <<>>,
                      !.at = clock,
                      !.seen = sets[clients[c].key]]]
  /\ UNCHANGED <<fetched, steps, cacheVars, orchVars, screenVars, httpVars, callVars>>

\* resp, err := c.client.Get(fullURL), the status test and the decoding of
\* the body into v.
ClientFetch(c) ==
  /\ clients[c].pc = "httpGet"
  /\ \E answer \in UpstreamPool :
       LET ok == ~answer.failed /\ answer.status = 200 /\ ~Decode(answer.body).err
       IN /\ clients' = [clients EXCEPT ![c] =
               [@ EXCEPT !.pc = IF ok THEN "cacheSet" ELSE "done",
                         !.calls = @ + 1,
                         !.err = IF answer.failed THEN "http request failed"
                                 ELSE IF answer.status # 200 THEN "API error"
                                 ELSE IF Decode(answer.body).err THEN "decode failed"
                                 ELSE "",
                         !.v = IF ok THEN Decode(answer.body).value ELSE <<>>]]
          /\ fetched' = IF ~answer.failed /\ answer.status = 200
                           /\ ~UnmarshalSeries(answer.body).err
                        THEN [fetched EXCEPT ![clients[c].key] =
                                @ \cup {UnmarshalSeries(answer.body).value}]
                        ELSE fetched
  /\ UNCHANGED <<steps, cacheVars, orchVars, screenVars, httpVars, callVars>>

\* A Set that stores the encoding short of its last byte.
ClientCacheSet_Partial(c) ==
  /\ clients[c].pc = "cacheSet"
  /\ cache' = [cache EXCEPT ![clients[c].key] =
                 [present |-> TRUE,
                  bytes |-> SubSeq(Marshal(clients[c].v), 1, Len(Marshal(clients[c].v)) - 1),
                  expiresAt |-> WithTTL(clock, ClientTTL)]]
  /\ sets' = [sets EXCEPT ![clients[c].key] =
                [present |-> TRUE, value |-> clients[c].v, at |-> clock,
                 ttl |-> ClientTTL]]
  /\ clients' = [clients EXCEPT ![c] = [@ EXCEPT !.pc = "done"]]
  /\ UNCHANGED <<clock, got, fetched, steps, orchVars, screenVars, httpVars, callVars>>

\* _ = c.cache.Set(fullURL, v, 24*time.Hour), and the call returns nil.
ClientCacheSet(c) ==
  /\ clients[c].pc = "cacheSet"
  /\ cache' = [cache EXCEPT ![clients[c].key] =
                 [present |-> TRUE, bytes |-> Marshal(clients[c].v),
                  expiresAt |-> WithTTL(clock, ClientTTL)]]
  /\ sets' = [sets EXCEPT ![clients[c].key] =
                [present |-> TRUE, value |-> clients[c].v, at |-> clock,
                 ttl |-> ClientTTL]]
  /\ clients' = [clients EXCEPT ![c] = [@ EXCEPT !.pc = "done"]]
  /\ UNCHANGED <<clock, got, fetched, steps, orchVars, screenVars, httpVars, callVars>>

\* Time passes between the steps of the callers.
Wait ==
  /\ steps.waits < MaxWaits
  /\ \E d \in WaitPool : clock' = clock + d
  /\ steps' = [steps EXCEPT !.waits = @ + 1]
  /\ UNCHANGED <<cache, sets, got, clients, fetched, orchVars, screenVars,
                 httpVars, callVars>>

NextClient ==
  \/ \E c \in Callers : ClientCall(c)
  \/ \E c \in Callers : ClientCacheGet(c)
  \/ \E c \in Callers : ClientFetch(c)
  \/ \E c \in Callers : ClientCacheSet(c)
  \/ Wait

SpecClient == InitScreen /\ [][NextClient]_vars

---------------------------------------------------------------------------
(* Calls of CalculateSMA and of ProcessTicker on series in any order *)

MaxPoints == 4

\* Series of up to MaxPoints points of distinct dates, in every order.
RECURSIVE SeriesOfDates(_)
SeriesOfDates(dates) ==
  {<<>>} \cup
  UNION {{<<[Date |-> d, Close |-> EODPoint(d).AdjustedClose]>> \o rest :
            rest \in SeriesOfDates(dates \ {d})} : d \in dates}
SeriesPool == SeriesOfDates(1 .. MaxPoints)
DaysPool == {1, 2, 3}

\* The orders in which the provider may send a history that is long enough.
OrderPool == {"exact_asc", "exact_mixed", "long_desc"}

\* A caller holds a series and calls CalculateSMA(series, days): the slice
\* it holds after the call, the value and the error.
CalculateSMA_Call ==
  /\ ~sma.called
  /\ lastCall = NoCall
  /\ \E res \in {CalculateSMA(sma.data, sma.days)} :
       sma' = [sma EXCEPT !.called = TRUE, !.data = res.data,
                          !.value = res.value, !.err = res.err]
  /\ UNCHANGED <<orchVars, screenVars, httpVars, cacheVars, clientVars,
                 session, today>>

\* ProcessTicker(db, client, ticker) with a provider that sends the history
\* in one of the orders.
ProcessTicker_Call ==
  /\ ~sma.called
  /\ lastCall = NoCall
  /\ \E i \in 1 .. Len(Universe), order \in OrderPool :
       \E res \in {ProcessTicker(prices, fundamentals,
                                 [provider[Universe[i]] EXCEPT !.eod = order],
                                 Universe[i], runs + 1)} :
          /\ provider' = [provider EXCEPT ![Universe[i]].eod = order]
          /\ prices' = res.prices
          /\ fundamentals' = res.fundamentals
          /\ lastCall' = res.call
  /\ UNCHANGED <<pc, idx, attempted, runs, afterFirst, screenVars, httpVars,
                 cacheVars, clientVars, callVars>>

InitSMA ==
  /\ provider = [t \in {Universe[i] : i \in 1 .. Len(Universe)} |->
                   [eod |-> "exact_asc", fund |-> "ok", div |-> "ok"]]
  /\ prices = {}
  /\ fundamentals = {}
  /\ pc = "idle"
  /\ idx = 1
  /\ attempted = <<>>
  /\ lastCall = NoCall
  /\ runs = 0
  /\ afterFirst = NoSnapshot
  /\ filter = EmptyFilter
  /\ screen = NoScreen
  /\ request = NoRequest
  /\ response = NoResponse
  /\ CacheIdle
  /\ ClientIdle
  /\ session = NoSession
  /\ sma \in {[NoSMA EXCEPT !.before = series, !.data = series, !.days = days] :
                series \in SeriesPool, days \in DaysPool}
  /\ today = AnyDay

NextSMA ==
  \/ CalculateSMA_Call
  \/ ProcessTicker_Call

SpecSMA == InitSMA /\ [][NextSMA]_vars

---------------------------------------------------------------------------
(* Claims about the update orchestrator *)

RowOf(ticker) == {r \in fundamentals : r.ticker = ticker}

\* C1: on a weekday RunNightlyUpdate attempts ProcessTicker for every ticker
\* of the universe, in order, and reaches "Nightly update complete": no
\* ticker's failure ends the loop or the process.
C1_EveryTickerAttempted ==
  /\ pc # "exited"
  /\ pc = "complete" => attempted = Universe

\* C2: after a ProcessTicker call that returned no error, the ticker's
\* fundamentals row holds the dividend yield, dividend growth, intrinsic
\* value and margin of safety of that call, with its ROE and P/E.
C2_RowHoldsValuation ==
  lastCall.saved =>
    \E r \in RowOf(lastCall.ticker) :
      /\ r.dividend_yield = Some(lastCall.divYield)
      /\ r.dividend_growth_5y = Some(lastCall.divGrowth)
      /\ r.intrinsic_value = Some(lastCall.intrinsic)
      /\ r.margin_of_safety = Some(lastCall.margin)
      /\ r.roe = Some(lastCall.roe)
      /\ r.pe_ratio = Some(lastCall.pe)

\* C3: a later refreshing run over unchanged provider data ends with the
\* store the first one left (timestamps aside), and the prices table never
\* has two rows for one (ticker, date).
C3_UpsertIdempotent ==
  /\ \A r1, r2 \in prices :
       r1.ticker = r2.ticker /\ r1.date = r2.date => r1 = r2
  /\ \A r1, r2 \in fundamentals : r1.ticker = r2.ticker => r1 = r2
  /\ afterFirst.taken /\ pc \in {"complete", "exited"} =>
       /\ prices = afterFirst.prices
       /\ Timeless(fundamentals) = afterFirst.fundamentals

\* A second refreshing run has completed and its last call saved both rows.
C3_Witness ==
  /\ afterFirst.taken
  /\ pc = "complete"
  /\ lastCall.saved
  /\ RowOf(lastCall.ticker) # {}
  /\ \E r \in prices : r.ticker = lastCall.ticker

\* C4: when a computation fails for a ticker (zero-equity ROE, invalid
\* intrinsic-value inputs), ProcessTicker reports an error and writes no
\* fundamentals row for the ticker in that run.
C4_ComputationErrorSkipsTicker ==
  lastCall.roeErr \/ lastCall.intrinsicErr =>
    /\ lastCall.err # ""
    /\ \A r \in RowOf(lastCall.ticker) : r.updated_at # runs + 1

\* C5: a ProcessTicker call for a ticker whose price-history fetch fails or
\* returns fewer than 200 points returns an error and leaves both tables as
\* they were.
C5_NoWriteStep ==
  (/\ pc = "refreshing"
   /\ idx <= Len(Universe)
   /\ attempted' = Append(attempted, Universe[idx])
   /\ LET r == GetEODData(provider[Universe[idx]].eod)
      IN r.err \/ Len(r.prices) < MinHistory)
  => /\ prices' = prices
     /\ fundamentals' = fundamentals
     /\ lastCall'.err = "not enough EOD data"
     /\ ~lastCall'.saved
C5_NoWriteOnInsufficientHistory == [][C5_NoWriteStep]_vars

\* A call on a 199-point series has returned its error while the store
\* holds rows of another ticker.
C5_Witness ==
  /\ lastCall.err = "not enough EOD data"
  /\ provider[lastCall.ticker].eod = "short_asc"
  /\ prices # {}
  /\ fundamentals # {}

---------------------------------------------------------------------------
(* Claims about the filter translator and the query builder *)

ComputedFields == {"price_vs_sma50", "price_vs_sma200", "intrinsic_vs_price"}
CatalogFields == fundamentalsFields \cup pricesFields
ClaimedOperators == {"=", "<", ">", "<=", ">=", "!=", "LIKE", "IN"}
CondAt(i) == filter.Conditions[i]
CondIndexes == 1 .. Len(filter.Conditions)
Pieces(seq) == {seq[k] : k \in 1 .. Len(seq)}

RecognizedComputed(c) ==
  /\ c.Value.type = "float64" /\ c.Value.num = 100
  /\ \/ c.Field \in {"price_vs_sma50", "price_vs_sma200"} /\ c.Operator \in {"<", ">"}
     \/ c.Field = "intrinsic_vs_price" /\ c.Operator = ">"

\* C6: a condition whose field is neither a fundamentals field, a prices
\* field nor a computed field makes translation fail with an unmapped-field
\* error; the field is not written as a column and no query is run.
C6_UnmappedFieldRejected ==
  screen.called =>
    \A i \in CondIndexes :
      CondAt(i).Field \notin CatalogFields \cup ComputedFields =>
        /\ screen.err # ""
        /\ ~screen.submitted
        /\ CondAt(i).Field \notin Pieces(screen.text)

\* C7: a condition on a computed field whose operator/value pair is not a
\* recognized one makes translation fail; it is never translated as an
\* ordinary column comparison.
C7_MalformedComputedRejected ==
  screen.called =>
    \A i \in CondIndexes :
      CondAt(i).Field \in ComputedFields /\ ~RecognizedComputed(CondAt(i)) =>
        /\ screen.err # ""
        /\ ~screen.submitted
        /\ CondAt(i).Field \notin Pieces(screen.text)

\* The pieces of query text the builder may emit whatever the caller sent.
SafePieces ==
  {BaseQuery, " WHERE ", " AND ", " ORDER BY ", " LIMIT ", " OFFSET ",
   "f.", "p.", " ", " ?", " IN (", "?,", "?", ")", " LIKE ?",
   "p.close < p.sma50", "p.close > p.sma50", "p.close < p.sma200",
   "p.close > p.sma200", "f.intrinsic_value > p.close"}
    \cup CatalogFields
    \cup ClaimedOperators
    \cup {validSorts[k] : k \in DOMAIN validSorts}
    \cup {ToString(n) : n \in LimitPool \cup OffsetPool}

\* C8: the query text holds no caller-supplied string except catalog column
\* names, the eight operators and whitelisted sort clauses.
C8_NoCallerTextInQuery ==
  screen.called => Pieces(screen.text) \subseteq SafePieces

C9_SortFields ==
  {"pe_ratio", "roe", "close", "dividend_yield", "margin_of_safety", "ticker"}
C9_Directions == {<<"asc", "ASC">>, <<"desc", "DESC">>}
C9_Keys ==
  {<<f \o "." \o d[1], (IF f = "close" THEN "p." ELSE "f.") \o f \o " " \o d[2]>> :
     f \in C9_SortFields, d \in C9_Directions}
C9_Expected(sort) ==
  IF \E k \in C9_Keys : k[1] = sort
  THEN (CHOOSE k \in C9_Keys : k[1] = sort)[2]
  ELSE "f.pe_ratio ASC"
OrderByIs(clause) ==
  \E k \in 1 .. Len(screen.text) - 1 :
    screen.text[k] = " ORDER BY " /\ screen.text[k + 1] = clause

C10_OnePredicatePerCondition ==
  (screen.called /\ \A i \in CondIndexes : CondAt(i).Operator \in ClaimedOperators)
  => /\ ~screen.panicked
     /\ Len(screen.where) = Len(filter.Conditions)
     /\ \A i \in CondIndexes :
          \/ Len(screen.where[i]) = 1
          \/ CondAt(i).Field \in Pieces(screen.where[i])
     /\ Cardinality({k \in 1 .. Len(screen.text) : screen.text[k] = " AND "})
          = IF Len(filter.Conditions) = 0 THEN 0 ELSE Len(filter.Conditions) - 1

IsListValue(v) == v.type \in {"[]string", "[]any"}
Placeholders(pred) ==
  Cardinality({k \in 1 .. Len(pred) : pred[k] \in {"?", "?,"}})

\* An IN predicate for condition c: alias, column, " IN (", one placeholder
\* per list element, ")".
IsINPredicate(pred, c) ==
  /\ Len(pred) >= 4
  /\ pred[1] = (IF c.Field \in pricesFields THEN "p." ELSE "f.")
  /\ pred[2] = c.Field
  /\ pred[3] = " IN ("
  /\ pred[Len(pred)] = ")"
  /\ Placeholders(pred) = Len(c.Value.list)

BindsInOrder(args, list) ==
  \E j \in 0 .. Len(args) - Len(list) :
    \A k \in 1 .. Len(list) : args[j + k] = StrVal(list[k])

\* C11: every IN condition with a list value of n elements (a []string of
\* TickerIn, a list of the JSON wire format, n >= 0) is translated to
\* '<alias>.<column> IN (...)' with n placeholders, and its n elements are
\* bound in list order.
C11_INListTranslated ==
  screen.called =>
    \A i \in CondIndexes :
      CondAt(i).Operator = "IN" /\ IsListValue(CondAt(i).Value) =>
        /\ ~screen.panicked
        /\ \E k \in 1 .. Len(screen.where) : IsINPredicate(screen.where[k], CondAt(i))
        /\ BindsInOrder(screen.args, CondAt(i).Value.list)

RECURSIVE Flatten(_)
\* The text of a piece sequence.
Flatten(seq) == IF seq = <<>> THEN "" ELSE Head(seq) \o Flatten(Tail(seq))

ComparisonOperators == {"=", "<", ">", "<=", ">=", "!=", "LIKE"}
IsStandard(c) == c.Field \in CatalogFields /\ c.Operator \in ComparisonOperators

C12_ComputedText(c) ==
  CASE c.Field = "price_vs_sma50" -> "p.close " \o c.Operator \o " p.sma50"
    [] c.Field = "price_vs_sma200" -> "p.close " \o c.Operator \o " p.sma200"
    [] c.Field = "intrinsic_vs_price" -> "f.intrinsic_value " \o c.Operator \o " p.close"

C12_StandardText(c) ==
  (IF c.Field \in pricesFields THEN "p." ELSE "f.") \o c.Field \o " "
    \o c.Operator \o " ?"

RECURSIVE C12_Args(_)
C12_Args(conds) ==
  IF conds = <<>> THEN <<>>
  ELSE (IF RecognizedComputed(Head(conds)) THEN <<>> ELSE <<Head(conds).Value>>)
         \o C12_Args(Tail(conds))

\* C12: a recognized computed-field condition becomes the column-to-column
\* comparison and binds no parameter; a condition on a standard field
\* becomes '<alias>.<column> <operator> ?' and binds its value as its single
\* parameter.
C12_ComputedAndStandardForms ==
  (screen.called
     /\ \A i \in CondIndexes : RecognizedComputed(CondAt(i)) \/ IsStandard(CondAt(i)))
  => /\ screen.submitted
     /\ Len(screen.where) = Len(filter.Conditions)
     /\ \A i \in CondIndexes :
          Flatten(screen.where[i]) =
            IF RecognizedComputed(CondAt(i)) THEN C12_ComputedText(CondAt(i))
            ELSE C12_StandardText(CondAt(i))
     /\ screen.args = C12_Args(filter.Conditions)

---------------------------------------------------------------------------
(* Claims about the screening engine over a store *)

ResultTickers == {screen.results[k].Ticker : k \in 1 .. Len(screen.results)}
StoreTickers == {r.ticker : r \in fundamentals}
\* The page holds every matching row: no offset, and no limit below the
\* number of tickers.
WholeResult ==
  filter.Offset <= 0 /\ (filter.Limit <= 0 \/ filter.Limit >= Cardinality(fundamentals))

\* C13: for a filter with zero conditions the query has no WHERE clause and
\* no bound parameters, and every ticker of the fundamentals table is
\* returned, joined to its most recent price row.
C13_NoConditionsNoWhere ==
  screen.called /\ filter.Conditions = <<>> =>
    /\ screen.submitted
    /\ " WHERE " \notin Pieces(screen.text)
    /\ screen.where = <<>>
    /\ screen.args = <<>>
    /\ WholeResult => /\ screen.err = ""
                      /\ ResultTickers = StoreTickers
                      /\ Len(screen.results) = Cardinality(fundamentals)

\* Zero conditions over the nightly store: the ticker without price rows and
\* the one with NULL valuation columns are returned too.
C13_Witness ==
  /\ screen.called
  /\ filter.Conditions = <<>>
  /\ fundamentals = NightlyFundamentals
  /\ WholeResult
  /\ {"DIS", "MSFT"} \subseteq ResultTickers

LatestOf(ticker) ==
  {r \in prices : r.ticker = ticker /\ \A o \in prices : o.ticker = ticker => o.date <= r.date}

\* A condition on the price columns holds of a result row.
PriceConditionHolds(c, r) ==
  CASE c.Field = "price_vs_sma50" -> SQLCompare(c.Operator, FloatVal(r.Close), FloatVal(r.SMA50))
    [] c.Field = "price_vs_sma200" -> SQLCompare(c.Operator, FloatVal(r.Close), FloatVal(r.SMA200))
    [] c.Field = "close" -> SQLCompare(c.Operator, FloatVal(r.Close), c.Value)
    [] OTHER -> TRUE

\* C14: ScreenStocks returns each ticker at most once; the close, sma50 and
\* sma200 of a returned ticker that has price rows are those of its price
\* row with the maximum date, and the conditions on price columns hold of
\* that row: an older row contributes nothing.
C14_LatestPriceRowOnly ==
  screen.called /\ screen.err = "" /\ ~screen.panicked =>
    /\ \A a, b \in 1 .. Len(screen.results) :
         a # b => screen.results[a].Ticker # screen.results[b].Ticker
    /\ \A k \in 1 .. Len(screen.results) :
         LET r == screen.results[k]
         IN /\ \A l \in LatestOf(r.Ticker) :
                 r.Close = l.close /\ r.SMA50 = l.sma50 /\ r.SMA200 = l.sma200
            /\ (\E o \in prices : o.ticker = r.Ticker) =>
                 \A i \in CondIndexes :
                   (RecognizedComputed(CondAt(i)) \/ IsStandard(CondAt(i)))
                     => PriceConditionHolds(CondAt(i), r)

\* A ticker with an older price row below its 200-day average and a latest
\* row above it is returned for "price above SMA200", with the latest close.
C14_Witness ==
  /\ screen.called
  /\ filter.Conditions = <<Cond("price_vs_sma200", ">", FloatVal(100))>>
  /\ \E k \in 1 .. Len(screen.results) :
       /\ screen.results[k].Ticker = "AAPL"
       /\ screen.results[k].Close = 15025
  /\ \E o \in prices : o.ticker = "AAPL" /\ o.date < 20240115 /\ o.close < o.sma200

\* num / den <operator> value, for a positive denominator.
RatioHolds(operator, num, den, value) ==
  /\ num.type # "nil" /\ den.type # "nil" /\ IsNumber(value)
  /\ SQLCompare(operator, FloatVal(num.num * 100), FloatVal(NumOf(value) * den.num))

\* The condition, as the caller states it, holds of a ticker's fundamentals
\* row and most recent price row.
ConditionHolds(c, j) ==
  CASE c.Field = "price_vs_sma50" ->
         RatioHolds(c.Operator, ColumnValue(j, "p.", "close"),
                    ColumnValue(j, "p.", "sma50"), c.Value)
    [] c.Field = "price_vs_sma200" ->
         RatioHolds(c.Operator, ColumnValue(j, "p.", "close"),
                    ColumnValue(j, "p.", "sma200"), c.Value)
    [] c.Field = "intrinsic_vs_price" ->
         RatioHolds(c.Operator, ColumnValue(j, "f.", "intrinsic_value"),
                    ColumnValue(j, "p.", "close"), c.Value)
    [] c.Field \in CatalogFields ->
         LET v == ColumnValue(j, IF c.Field \in pricesFields THEN "p." ELSE "f.", c.Field)
         IN CASE c.Operator = "IN" ->
                   \E k \in 1 .. Len(c.Value.list) :
                     SQLCompare("=", v, StrVal(c.Value.list[k]))
              [] c.Operator = "LIKE" -> SQLLike(v, c.Value)
              [] OTHER -> SQLCompare(c.Operator, v, c.Value)
    [] OTHER -> FALSE

C15_Matching ==
  {j \in JoinedRows(fundamentals, prices) :
     \A i \in CondIndexes : ConditionHolds(CondAt(i), j)}

C15_RowOf(ticker) ==
  CHOOSE j \in JoinedRows(fundamentals, prices) : j.f.ticker = ticker

C15_Ordered ==
  filter.Sort \in DOMAIN validSorts =>
    \A a, b \in 1 .. Len(screen.results) :
      a < b =>
        LET ka == OrderKey(C15_RowOf(screen.results[a].Ticker), validSorts[filter.Sort])
            kb == OrderKey(C15_RowOf(screen.results[b].Ticker), validSorts[filter.Sort])
        IN IF OrderDescending(validSorts[filter.Sort])
           THEN ~KeyLess(ka, kb) ELSE ~KeyLess(kb, ka)

\* C15: ScreenStocks returns exactly the tickers whose fundamentals row and
\* most recent price row satisfy every condition of the filter, ordered by
\* the sort key, whatever the order of the conditions; pe_ratio < 15 and
\* roe > 0.15 sorted pe_ratio.asc over the sample rows gives [GOOGL, AAPL].
\* (Conditions on catalog and computed fields with a non-null value.)
C15_ExactlyTheMatchingTickers ==
  (/\ screen.called
   /\ WholeResult
   /\ \A i \in CondIndexes :
        /\ CondAt(i).Operator \in ClaimedOperators
        /\ CondAt(i).Field \in CatalogFields \cup ComputedFields
        /\ CondAt(i).Value.type # "nil")
  => /\ ~screen.panicked
     /\ screen.err = ""
     /\ ResultTickers = {j.f.ticker : j \in C15_Matching}
     /\ Len(screen.results) = Cardinality(C15_Matching)
     /\ C15_Ordered
     /\ (/\ fundamentals = SampleFundamentals
         /\ filter.Sort = "pe_ratio.asc"
         /\ filter.Conditions \in
              {<<Cond("pe_ratio", "<", FloatVal(1500)), Cond("roe", ">", FloatVal(15))>>,
               <<Cond("roe", ">", FloatVal(15)), Cond("pe_ratio", "<", FloatVal(1500))>>})
        => [k \in 1 .. Len(screen.results) |-> screen.results[k].Ticker]
             = <<"GOOGL", "AAPL">>

---------------------------------------------------------------------------
(* Claims about the HTTP handler *)

RequestPage == parseIntParam(request.page, DefaultPage)
RequestLimit == parseIntParam(request.limit, DefaultLimit)
ValidPage == RequestPage.ok /\ ~BelowOne(RequestPage)
ValidLimit == RequestLimit.ok /\ ~BelowOne(RequestLimit) /\ ~Above(RequestLimit, MaxLimit)
ValidFilters == ParseFilterFromJSON(request.filters).err = ""
ValidRequest == request.method = "GET" /\ ValidPage /\ ValidLimit /\ ValidFilters

\* x * k as a number (no wrap-around), with every number from Beyond on
\* standing as Beyond.
Product(x, k) ==
  LET m == MulAdd(x, k, 0)
  IN IF m.carry > 0 \/ SignBit(m.limbs) THEN Beyond ELSE ToInt(m.limbs)

\* N: the tickers of the store that match the WHERE clause of the query.
MatchingCount ==
  Cardinality({j \in JoinedRows(fundamentals, prices) :
                 WhereTrue(screen.where, screen.args, j)})

\* C16: for a valid request with page p >= 1 and limit L in 1..1000 the
\* handler asks ScreenStocks for L+1 rows at offset (p-1)*L, returns at
\* most L rows, and has_more is true exactly when the N matching tickers
\* are more than p*L.
C16_LimitPlusOneAndHasMore ==
  ValidRequest =>
    /\ screen.called
    /\ filter.Limit = ToInt(RequestLimit.mag) + 1
    /\ filter.Offset = Product(Decrement(RequestPage.mag), ToInt(RequestLimit.mag))
    /\ response.status = StatusOK =>
         /\ Len(response.data) <= ToInt(RequestLimit.mag)
         /\ response.has_more
              <=> MatchingCount > Product(RequestPage.mag, ToInt(RequestLimit.mag))

\* The filters parameter is a JSON array of [field, operator, value]
\* triples: a list whose elements are lists of three values, the first two
\* of them strings.
IsTriple(v) ==
  /\ v.kind = "array"
  /\ Len(v.items) = 3
  /\ v.items[1].kind = "string"
  /\ v.items[2].kind = "string"
IsTripleList(toks) ==
  /\ ParseJSON(toks).ok
  /\ ParseJSON(toks).v.kind = "array"
  /\ \A k \in 1 .. Len(ParseJSON(toks).v.items) : IsTriple(ParseJSON(toks).v.items[k])

\* C17: a GET request whose page is not a number or below 1, whose limit is
\* not a number or outside 1..1000, or whose filters parameter is not a
\* JSON array of triples is answered 400 with an error code and a message,
\* and ScreenStocks is not called.
C17_InvalidRequestRejected ==
  (/\ request.method = "GET"
   /\ \/ ~ValidPage
      \/ ~ValidLimit
      \/ request.filters # <<>> /\ ~IsTripleList(request.filters))
  => /\ response.status = StatusBadRequest
     /\ response.error # ""
     /\ response.message # ""
     /\ ~screen.called

\* DefaultFilters, the documented default of the filters parameter.
DefaultFilters == <<LB>> \o Triple("pe_ratio", "<", <<TNum(2000)>>) \o <<RB>>

\* C18: a GET request without a filters parameter is screened with the
\* default filter (the one condition pe_ratio < 20) and, without a sort
\* parameter, with the sort pe_ratio.asc.
C18_DefaultFilterAndSort ==
  (request.method = "GET" /\ ValidPage /\ ValidLimit /\ request.filters = <<>>)
  => /\ screen.called
     /\ filter.Conditions = <<Cond("pe_ratio", "<", FloatVal(2000))>>
     /\ request.sort = "" => filter.Sort = "pe_ratio.asc"

\* The renaming of provider field names the parser applies.
RenamedFields ==
  {<<"market_capitalization", "market_cap">>, <<"earnings_share", "eps">>,
   <<"refund_5d_p", "return_5d">>, <<"avgvol_200d", "avg_volume_200d">>,
   <<"type", "asset_type">>}
Renamed(field) ==
  IF \E r \in RenamedFields : r[1] = field
  THEN (CHOOSE r \in RenamedFields : r[1] = field)[2] ELSE field

FilterDocument == ParseJSON(request.filters)
IsListOfLists(v) ==
  v.kind = "array" /\ \A k \in 1 .. Len(v.items) : v.items[k].kind = "array"

\* C19: ParseFilterFromJSON gives zero conditions and no error for the
\* empty string; an error for text that is not JSON, for a condition that
\* has not exactly 3 elements and for a field or operator that is not a
\* string; otherwise one condition per triple, in input order, the field
\* renamed by mapFieldName, the operator and the value unchanged.
C19_ParseFilterFromJSON ==
  LET r == ParseFilterFromJSON(request.filters)
      doc == FilterDocument.v
  IN /\ request.filters = <<>> => r.err = "" /\ r.filter.Conditions = <<>>
     /\ (request.filters # <<>> /\ ~FilterDocument.ok) => r.err # ""
     /\ (FilterDocument.ok /\ IsListOfLists(doc)
           /\ \E k \in 1 .. Len(doc.items) : ~IsTriple(doc.items[k])) => r.err # ""
     /\ (FilterDocument.ok /\ IsListOfLists(doc)
           /\ \A k \in 1 .. Len(doc.items) : IsTriple(doc.items[k]))
        => /\ r.err = ""
           /\ Len(r.filter.Conditions) = Len(doc.items)
           /\ \A k \in 1 .. Len(doc.items) :
                /\ r.filter.Conditions[k].Field = Renamed(doc.items[k].items[1].str)
                /\ r.filter.Conditions[k].Operator = doc.items[k].items[2].str
                /\ r.filter.Conditions[k].Value = ToAny(doc.items[k].items[3])
     /\ ValidRequest => filter.Conditions = r.filter.Conditions

\* The handler parsed a triple with a provider field name and screened with
\* the renamed condition.
C19_Witness ==
  /\ screen.called
  /\ request.filters
       = <<LB>> \o Triple("market_capitalization", ">", <<TNum(100000)>>) \o <<RB>>
  /\ filter.Conditions = <<Cond("market_cap", ">", FloatVal(100000))>>

---------------------------------------------------------------------------
(* Claims about the data cache *)

\* Time between the most recent Set of the key and the Get, in half seconds.
Elapsed == got.at - got.last.at

---------------------------------------------------------------------------
(* Claims about the provider client *)

\* The caller has consulted the cache for its request.
Consulted(c) == clients[c].pc \in {"httpGet", "cacheSet", "done"}
\* Time between the caching of the fetched response and the lookup.
SinceFetch(c) == clients[c].at - clients[c].seen.at
AnsweredFromCache(c) ==
  /\ clients[c].pc = "done"
  /\ clients[c].calls = 0
  /\ clients[c].err = "" => clients[c].v = clients[c].seen.value

Requested(c, k) == clients[c].pc # "idle" /\ clients[c].key = k
\* The caller's request found the cache empty for its key.
FoundEmpty(c) == Consulted(c) /\ ~clients[c].seen.present
\* The caller's request has returned without an error.
Returned(c) == clients[c].pc = "done" /\ clients[c].err = ""
\* The entry of the key is the whole encoding of one response fetched for it.
CompleteEntry(k) ==
  /\ cache[k].present
  /\ ~UnmarshalSeries(cache[k].bytes).err
  /\ UnmarshalSeries(cache[k].bytes).value \in fetched[k]
  /\ cache[k].bytes = Marshal(UnmarshalSeries(cache[k].bytes).value)
\* The caller's next step can be taken.
CanStep(c) ==
  CASE clients[c].pc = "cacheGet" -> ENABLED ClientCacheGet(c)
    [] clients[c].pc = "httpGet" -> ENABLED ClientFetch(c)
    [] clients[c].pc = "cacheSet" -> ENABLED ClientCacheSet(c)
    [] OTHER -> FALSE

ClientErrors == {"cache get error", "http request failed", "API error", "decode failed"}
\* A step in which a call of Client.get returns an error.
Fails(c) == clients[c].err = "" /\ clients'[c].err \in ClientErrors

\* C28: the cache holds an entry for a request key only if an upstream
\* call for that key returned 200 with a body that decoded, and the entry
\* is that response; a call that ends in a network failure, a status other
\* than 200, a decode failure or a cache read error leaves the cache as it
\* was.
C28_OnlyFetchedResponsesCached ==
  /\ [](\A k \in CacheKeys :
          cache[k].present =>
            /\ ~UnmarshalSeries(cache[k].bytes).err
            /\ UnmarshalSeries(cache[k].bytes).value \in fetched[k])
  /\ [][\A c \in Callers : Fails(c) => cache' = cache]_vars

\* One request was fetched and cached while the request for the other key
\* failed to decode and left no entry.
C28_Witness ==
  \E k \in CacheKeys, c \in Callers :
    /\ cache[k].present
    /\ UnmarshalSeries(cache[k].bytes).value \in fetched[k]
    /\ clients[c].key \in CacheKeys \ {k}
    /\ clients[c].err = "decode failed"
    /\ clients[c].calls = 1
    /\ ~cache[clients[c].key].present

---------------------------------------------------------------------------
(* Claims about the moving average and the price row *)

RECURSIVE SumOfCloses(_)
SumOfCloses(points) ==
  IF points = {} THEN 0
  ELSE LET p == CHOOSE q \in points : TRUE
       IN p.Close + SumOfCloses(points \ {p})
PointsOf(series) == {series[i] : i \in 1 .. Len(series)}
\* The n points of the series with the greatest dates.
Newest(series, n) ==
  {p \in PointsOf(series) :
     Cardinality({q \in PointsOf(series) : q.Date > p.Date}) < n}

\* C23: CalculateSMA(series, N) fails when the series has fewer than N
\* points; on a series of at least N points of distinct dates it returns
\* the arithmetic mean of the closes of the N points with the greatest
\* dates, whatever the order of the series.
C23_MeanOfTheNewest ==
  sma.called =>
    /\ sma.err <=> Len(sma.before) < sma.days
    /\ ~sma.err => sma.value = SumOfCloses(Newest(sma.before, sma.days)) \div sma.days

\* The average of the two newest of four points that came in mixed order.
C23_Witness ==
  /\ sma.called
  /\ ~sma.err
  /\ sma.days = 2
  /\ Len(sma.before) = 4
  /\ sma.before[1].Date = 2 /\ sma.before[2].Date = 4
  /\ sma.before[3].Date = 1 /\ sma.before[4].Date = 3
  /\ sma.value = (EODPoint(4).AdjustedClose + EODPoint(3).AdjustedClose) \div 2

\* C24 as stated: CalculateSMA leaves the series of its caller unchanged,
\* the same elements in the same order after the call as before.
C24_SeriesUnchanged == sma.called => sma.data = sma.before

\* The date of the newest point of a history.
MaxDate(body) ==
  CHOOSE d \in {body[i].Date : i \in 1 .. Len(body)} :
    \A i \in 1 .. Len(body) : body[i].Date <= d
\* The price rows of a ticker.
PriceRows(ticker) == {r \in prices : r.ticker = ticker}

\* C27: the price row ProcessTicker upserts carries the greatest date of
\* the fetched history and the close of the point of that date, in whatever
\* order the provider sent the history.
C27_LatestRowIsNewestPoint ==
  lastCall.ticker # "" =>
    LET body == EODBody(provider[lastCall.ticker].eod)
    IN /\ Cardinality(PriceRows(lastCall.ticker)) = 1
       /\ \A r \in PriceRows(lastCall.ticker) :
            /\ r.date = MaxDate(body)
            /\ \E i \in 1 .. Len(body) :
                 body[i].Date = r.date /\ body[i].AdjustedClose = r.close

\* ProcessTicker stored the row of a history that came in mixed order.
C27_Witness ==
  /\ lastCall.ticker # ""
  /\ lastCall.saved
  /\ provider[lastCall.ticker].eod = "exact_mixed"
  /\ EODBody("exact_mixed")[1].Date # MinHistory
  /\ EODBody("exact_mixed")[MinHistory].Date # MinHistory
  /\ \E r \in PriceRows(lastCall.ticker) : r.date = MinHistory

---------------------------------------------------------------------------
(* Claims about the weekend gate *)

Weekend == today = Saturday \/ today = Sunday
\* RunNightlyUpdate is invoked in this step.
Invoked == pc = "idle" /\ pc' # "idle"

\* The gate alone: a weekend invocation is skipped with no provider call
\* and no store write, any other enters Refreshing, as ShouldUpdateNow says.
C25_GateAgrees ==
  /\ [](Weekend => pc \in {"idle", "skipped"} /\ attempted = <<>>)
  /\ [](pc \in {"refreshing", "complete", "exited"} => ShouldUpdateNow(today))
  /\ [][Invoked => /\ pc' = "refreshing" <=> ShouldUpdateNow(today)
                   /\ pc' = "skipped" <=> ~ShouldUpdateNow(today)]_vars
  /\ [][Weekend => prices' = prices /\ fundamentals' = fundamentals]_vars

\* C25: RunNightlyUpdate invoked on a Saturday or Sunday makes no provider
\* call and no store write; invoked on any other day it enters Refreshing
\* and processes the universe, every ticker of it up to "Nightly update
\* complete"; the gate agrees with ShouldUpdateNow on every day of the week.
C25_IdleOnWeekends ==
  /\ C25_GateAgrees
  /\ [](pc # "exited")
  /\ [](pc = "complete" => attempted = Universe)

---------------------------------------------------------------------------
(* Claims about the text and the parameters of the query *)

\* The pieces of the query text that hold a '?'.
PlaceholderPieces == {"?", "?,", " ?", " LIKE ?"}
TextPlaceholders(text) ==
  Cardinality({k \in 1 .. Len(text) : text[k] \in PlaceholderPieces})

\* The parameters the placeholders of a condition's predicate take: the
\* elements of a list, the value itself otherwise (a null value is bound as
\* NULL), none for a predicate without placeholder.
RECURSIVE ParametersOf(_)
ParametersOf(conds) ==
  IF conds = <<>> THEN <<>>
  ELSE LET c == Head(conds)
           n == TextPlaceholders(buildSQLCondition(c).sql)
       IN (IF n = 0 THEN <<>>
           ELSE IF c.Value.type = "[]string"
             THEN [i \in 1 .. Len(c.Value.list) |-> StrVal(c.Value.list[i])]
           ELSE <<c.Value>>)
          \o ParametersOf(Tail(conds))

\* C26: for every filter, conditions with a null value included, the query
\* text of buildQuery has as many '?' placeholders as there are bound
\* parameters, and the parameters are in the order of the conditions that
\* produced them.
C26_PlaceholdersMatchParameters ==
  (screen.called /\ ~screen.panicked) =>
    /\ TextPlaceholders(screen.text) = Len(screen.args)
    /\ screen.args = ParametersOf(filter.Conditions)

\* The filter has no condition with a null value.
NoNullValue == \A i \in CondIndexes : CondAt(i).Value.type # "nil"
C26_WithoutNullValues == NoNullValue => C26_PlaceholdersMatchParameters

\* The position of a clause in the query text, 0 if it has none.
ClauseAt(text, clause) ==
  IF \E k \in 1 .. Len(text) : text[k] = clause
  THEN CHOOSE k \in 1 .. Len(text) : text[k] = clause
  ELSE 0

\* C30: for a filter with Limit >= 0 and Offset >= 0 the limit and the
\* offset are written into the text as literal integers, and an OFFSET
\* clause never appears without a LIMIT clause before it.
C30_OffsetOnlyAfterLimit ==
  (screen.called /\ ~screen.panicked /\ filter.Limit >= 0 /\ filter.Offset >= 0) =>
    LET l == ClauseAt(screen.text, " LIMIT ")
        o == ClauseAt(screen.text, " OFFSET ")
    IN /\ l > 0 => screen.text[l + 1] = ToString(filter.Limit)
       /\ o > 0 => screen.text[o + 1] = ToString(filter.Offset)
       /\ o > 0 => l > 0 /\ l < o

C30_WithALimit == filter.Limit > 0 => C30_OffsetOnlyAfterLimit

---------------------------------------------------------------------------
(* Claims about paging through a result *)

\* The joined rows that match the WHERE clause of the session's query.
SessionMatching ==
  {j \in JoinedRows(fundamentals, prices) : WhereTrue(screen.where, screen.args, j)}
\* The ORDER BY clause of the session's query.
SessionOrder == sanitizeSort(IF session.sort = "" THEN "pe_ratio.asc" ELSE session.sort)
\* The sort key has a different value for every matching ticker.
DistinctSortKeys ==
  \A a, b \in SessionMatching :
    a # b => OrderKey(a, SessionOrder) # OrderKey(b, SessionOrder)
\* The matching tickers in sort order.
InSortOrder ==
  LET s == CHOOSE o \in RowOrders(SessionMatching, SessionOrder) : TRUE
  IN [k \in 1 .. Len(s) |-> s[k].f.ticker]
SessionLimit == ToInt(parseIntParam(session.limit, DefaultLimit).mag)
Least(a, b) == IF a < b THEN a ELSE b

\* C29: over an unchanged store and with a sort key that is distinct across
\* the matching tickers, the pages 1, 2, ... of a fixed limit, requested
\* until has_more is false, hold every matching ticker exactly once, in
\* sort order, and only the last page has has_more false.
C29_PagesCoverTheResult ==
  (session.page >= 1 /\ ~session.failed /\ DistinctSortKeys) =>
    /\ Len(session.more) = session.page
    /\ session.tickers =
         SubSeq(InSortOrder, 1, Least(session.page * SessionLimit, Len(InSortOrder)))
    /\ \A k \in 1 .. Len(session.more) - 1 : session.more[k]
    /\ session.more[session.page] <=> Len(session.tickers) < Len(InSortOrder)
    /\ ~session.more[session.page] => session.tickers = InSortOrder

\* Three pages of one ticker each covered a result of three tickers.
C29_Witness ==
  /\ session.page = 3
  /\ ~session.failed
  /\ DistinctSortKeys
  /\ session.more = <<TRUE, TRUE, FALSE>>
  /\ Len(session.tickers) = 3
  /\ session.tickers = InSortOrder

\* With equal sort keys a ticker may come twice over the pages.
C29_NoTickerTwice ==
  \A a, b \in 1 .. Len(session.tickers) :
    a # b => session.tickers[a] # session.tickers[b]

====
